---- MODULE Spec2Model ----
(***************************************************************************)
(* A model of spinel's scanner, error handler and parser (the code taken   *)
(* over from esprima and cut down), used to settle the statements of the   *)
(* natural-language specification against the code.                        *)
(*                                                                         *)
(* Conventions.  A source text is a sequence of one-character strings;     *)
(* offsets are 0-based as in the code, so the character at offset i is     *)
(* source[i + 1].  A read outside the text gives Undefined (JavaScript's   *)
(* undefined / NaN).  A raised exception is a value carried in the field   *)
(* exc of the machine record; every operation is the identity on a machine *)
(* that already carries an exception, which is how a throw unwinds.        *)
(***************************************************************************)
EXTENDS Integers, Sequences, FiniteSets, TLC

VARIABLES
    source,     \* Scanner.source
    config,     \* Parser.config / Tokenizer config: [tolerant, comment, tokens]
    scanner,    \* Scanner: [index, lineNumber, lineStart, curly]
    errors,     \* ErrorHandler.errors
    parser,     \* Parser: [lookahead, hasLineTerminator, context, lastMarker, startMarker, tokens]
    body,       \* parseScript's body list
    status,     \* "running", "returned" (parse returned a Script), "raised", "hung"
    thrown,     \* the exception that left the last call, or NoError
    last,       \* what the last operation was and what it returned
    hist        \* harness history: the values a later step compares against

vars == <<source, config, scanner, errors, parser, body, status, thrown, last, hist>>

-----------------------------------------------------------------------------
(* Bounds of the model *)

\* longest errors list the error-handler harness builds
MaxErrors == 3
\* number of source fragments concatenated into a scanner input
MaxScanFrags == 4
\* the scanner harness makes no further call once a line number is above this
\* (with comment tracking on, the line number can grow without end)
MaxLine == 5
\* depth to which statements are nested in a parser input
MaxNest == 2
\* number of operator-operand pairs after the first operand of a binary expression
MaxOperators == 3
MaxTableOperators == 2

-----------------------------------------------------------------------------
(* Small helpers on sequences and strings *)

Undefined == "undefined"
NoError == [name |-> "none"]
NoToken == [type |-> "none"]
Null == [type |-> "null"]

Max(a, b) == IF a >= b THEN a ELSE b
Min(a, b) == IF a <= b THEN a ELSE b

RECURSIVE Join(_)
Join(s) == IF s = <<>> THEN "" ELSE Head(s) \o Join(Tail(s))

RECURSIVE Flatten(_)
Flatten(ss) == IF ss = <<>> THEN <<>> ELSE Head(ss) \o Flatten(Tail(ss))

Last(s) == s[Len(s)]
Front(s) == SubSeq(s, 1, Len(s) - 1)

DigitChars == <<"0", "1", "2", "3", "4", "5", "6", "7", "8", "9">>

RECURSIVE NatToStr(_)
NatToStr(n) == IF n < 10 THEN DigitChars[n + 1]
               ELSE NatToStr(n \div 10) \o DigitChars[(n % 10) + 1]

\* JavaScript's number-to-string conversion, on integers
ToStr(n) == IF n < 0 THEN "-" \o NatToStr(-n) ELSE NatToStr(n)

-----------------------------------------------------------------------------
(* Character classes (lib/esprima/character) on the characters of the model *)

LowerLetters == {"a", "b", "c", "d", "e", "f", "g", "h", "i", "j", "k", "l", "m",
                 "n", "o", "p", "q", "r", "s", "t", "u", "v", "w", "x", "y", "z"}
UpperLetters == {"A", "B", "C", "D", "E", "F", "O", "X"}
DecimalDigits == {"0", "1", "2", "3", "4", "5", "6", "7", "8", "9"}

IsWhiteSpace(ch) == ch \in {" ", "\t"}
IsLineTerminator(ch) == ch \in {"\n", "\r"}
IsDecimalDigit(ch) == ch \in DecimalDigits
IsHexDigit(ch) == ch \in DecimalDigits \cup {"a", "b", "c", "d", "e", "f", "A", "B", "C", "D", "E", "F"}
IsOctalDigit(ch) == ch \in {"0", "1", "2", "3", "4", "5", "6", "7"}
IsBinaryDigit(ch) == ch \in {"0", "1"}
IsIdentifierStart(ch) == ch \in LowerLetters \cup UpperLetters \cup {"$", "_", "\\"}
IsIdentifierPart(ch) == IsIdentifierStart(ch) \/ IsDecimalDigit(ch)

HexDigitValues == [c \in DecimalDigits \cup {"a", "b", "c", "d", "e", "f", "A", "B", "C", "D", "E", "F"} |->
    CASE c = "0" -> 0 [] c = "1" -> 1 [] c = "2" -> 2 [] c = "3" -> 3 [] c = "4" -> 4
      [] c = "5" -> 5 [] c = "6" -> 6 [] c = "7" -> 7 [] c = "8" -> 8 [] c = "9" -> 9
      [] c \in {"a", "A"} -> 10 [] c \in {"b", "B"} -> 11 [] c \in {"c", "C"} -> 12
      [] c \in {"d", "D"} -> 13 [] c \in {"e", "E"} -> 14 [] c \in {"f", "F"} -> 15]

\* hexValue: the digit's value; octalValue is its restriction to 0..7
hexValue(ch) == HexDigitValues[ch]

\* String.fromCharCode / Character.fromCodePoint on the code points the model writes
\* as escapes; any other code point is a character outside every class above
fromCharCode(code) ==
    CASE code = 97 -> "a" [] code = 98 -> "b" [] code = 101 -> "e" [] code = 108 -> "l"
      [] code = 116 -> "t" [] code = 120 -> "x" [] code = 49 -> "1" [] code = 43 -> "+"
      [] code = 92 -> "\\" [] code = 10 -> "\n" [] code = 102 -> "f" [] code = 105 -> "i"
      [] OTHER -> "?"

-----------------------------------------------------------------------------
(* Method calls.  The methods of the Scanner and of the Parser call each   *)
(* other in mutual recursion (a statement holds expressions, a function    *)
(* expression holds statements), and the Parser takes methods as values    *)
(* (isolateCoverGrammar(this.parseAssignmentExpression)).  A call this.f(x)*)
(* of a method f is written Call("f", <<m, x>>), m the machine: Call looks *)
(* the method up by its name in the table of the methods, which stands     *)
(* after the last of them.                                                 *)

RECURSIVE Call(_, _)

-----------------------------------------------------------------------------
(* ErrorHandler *)

\* createError: the diagnostic record; constructError attaches the column
createError(index, line, col, description) ==
    [name |-> "Error",
     message |-> "Line " \o ToStr(line) \o ": " \o description,
     index |-> index, lineNumber |-> line, column |-> col,
     description |-> description]

\* recordError on a machine m = [..., errors, exc]
recordError(m, error) == [m EXCEPT !.errors = Append(@, error)]

\* throw error
Throw(m, error) ==
    IF m.exc # NoError THEN m ELSE [m EXCEPT !.exc = error, !.stopped = TRUE]

tolerate_NoRecord(m, tol, error) ==
    IF m.exc # NoError THEN m
    ELSE IF tol THEN m ELSE Throw(m, error)

\* ErrorHandler.tolerate
tolerate(m, tol, error) ==
    IF m.exc # NoError THEN m
    ELSE IF tol THEN recordError(m, error) ELSE Throw(m, error)

\* ErrorHandler.throwError
throwError(m, index, line, col, description) ==
    Throw(m, createError(index, line, col, description))

\* ErrorHandler.tolerateError
tolerateError(m, tol, index, line, col, description) ==
    IF m.exc # NoError THEN m
    ELSE LET error == createError(index, line, col, description)
         IN  IF tol THEN recordError(m, error) ELSE Throw(m, error)

-----------------------------------------------------------------------------
(* Scanner.  A machine m carries the scanner's fields (index, lineNumber,  *)
(* lineStart, curly = curlyStack.length, trackComment), the error handler's *)
(* (errors, tolerant), the pending exception exc and hung, which is TRUE   *)
(* when a loop of the code was entered that never ends.                    *)

Length == Len(source)

\* source[i] / source.charCodeAt(i): Undefined (NaN) outside the text
CharAt(i) == IF i >= 0 /\ i < Length THEN source[i + 1] ELSE Undefined

\* source.slice(a, b) for 0 <= a, as a sequence of characters
Slice(a, b) == IF a < b THEN SubSeq(source, a + 1, Min(b, Length)) ELSE <<>>

\* source.substr(start, n): a negative start counts from the end of the text
Substr(start, n) ==
    LET from == IF start < 0 THEN Max(Length + start, 0) ELSE start
    IN  Slice(from, from + n)

Stopped(m) == m.stopped

\* Scanner.eof
eof(m) == m.index >= Length

\* Scanner.saveState
saveState(m) == [index |-> m.index, lineNumber |-> m.lineNumber, lineStart |-> m.lineStart]

restoreState_NoLineStart(m, state) ==
    [m EXCEPT !.index = state.index, !.lineNumber = state.lineNumber]

\* Scanner.restoreState
restoreState(m, state) ==
    [m EXCEPT !.index = state.index, !.lineNumber = state.lineNumber,
              !.lineStart = state.lineStart]

\* Scanner.throwUnexpectedToken(message)
ScannerThrow(m, message) ==
    throwError(m, m.index, m.lineNumber, m.index - m.lineStart + 1, message)

\* Scanner.tolerateUnexpectedToken(message)
ScannerTolerate(m, message) ==
    tolerateError(m, m.tolerant, m.index, m.lineNumber, m.index - m.lineStart + 1, message)

\* Messages (lib/esprima/messages)
Messages == [
    UnexpectedTokenIllegal |-> "Unexpected token ILLEGAL",
    InvalidEscapedReservedWord |-> "Keyword must not contain escaped characters",
    InvalidHexEscapeSequence |-> "Invalid hexadecimal escape sequence",
    UnexpectedToken |-> "Unexpected token %0",
    UnexpectedEOS |-> "Unexpected end of input",
    UnexpectedIdentifier |-> "Unexpected identifier",
    UnexpectedNumber |-> "Unexpected number",
    UnexpectedString |-> "Unexpected string",
    UnexpectedReserved |-> "Unexpected reserved word",
    IllegalBreak |-> "Illegal break statement",
    IllegalContinue |-> "Illegal continue statement",
    IllegalReturn |-> "Illegal return statement",
    UnknownLabel |-> "Undefined label '%0'",
    Redeclaration |-> "%0 '%1' has already been declared",
    InvalidLHSInAssignment |-> "Invalid left-hand side in assignment",
    InvalidLHSInForLoop |-> "Invalid left-hand side in for-loop",
    DeclarationMissingInitializer |-> "Missing initializer in %0 declaration",
    NewlineAfterThrow |-> "Illegal newline after throw",
    LetInLexicalBinding |-> "let is disallowed as a lexically bound name"]

\* The body of skipSingleLineComment's loop, from the character at m.index on.
\* start and loc are the values the code computed when trackComment is set.
RECURSIVE SkipLineLoop(_, _, _, _)
SkipLineLoop(m, offset, start, loc) ==
    IF eof(m)
    THEN \* reached the end of the file
         [m |-> m,
          comments |-> IF m.trackComment
                       THEN << [multiLine |-> FALSE,
                                slice |-> <<start + offset, m.index>>,
                                range |-> <<start, m.index>>,
                                loc |-> [start |-> loc,
                                         end |-> [line |-> m.lineNumber,
                                                  column |-> m.index - m.lineStart]]] >>
                       ELSE <<>>]
    ELSE LET ch == CharAt(m.index)
             m1 == [m EXCEPT !.index = @ + 1]
         IN  IF IsLineTerminator(ch)
             THEN LET \* loc.end = { line, column: this.index = this.lineStart - 1 }
                      m2 == IF m1.trackComment
                            THEN [m1 EXCEPT !.index = m1.lineStart - 1]
                            ELSE m1
                      entry == [multiLine |-> FALSE,
                                slice |-> <<start + offset, m2.index - 1>>,
                                range |-> <<start, m2.index - 1>>,
                                loc |-> [start |-> loc,
                                         end |-> [line |-> m2.lineNumber,
                                                  column |-> m2.index]]]
                      m3 == IF ch = "\r" /\ CharAt(m2.index) = "\n"
                            THEN [m2 EXCEPT !.index = @ + 1]
                            ELSE m2
                      m4 == [m3 EXCEPT !.lineNumber = @ + 1, !.lineStart = m3.index]
                  IN  [m |-> m4,
                       comments |-> IF m.trackComment THEN <<entry>> ELSE <<>>]
             ELSE SkipLineLoop(m1, offset, start, loc)

\* Scanner.skipSingleLineComment(offset)
skipSingleLineComment(m, offset) ==
    SkipLineLoop(m, offset,
                 IF m.trackComment THEN m.index - offset ELSE 0,
                 IF m.trackComment
                 THEN [line |-> m.lineNumber, column |-> m.index - m.lineStart - offset]
                 ELSE [line |-> 0, column |-> 0])

\* The loop of scanComments.  seen holds the <<index, lineStart>> pairs the loop
\* head was at: the loop's control depends on nothing else that changes, so
\* coming back to one of them means the loop never ends.
RECURSIVE ScanCommentsLoop(_, _, _)
ScanCommentsLoop(m, comments, seen) ==
    IF eof(m) THEN [m |-> m, comments |-> comments]
    ELSE IF <<m.index, m.lineStart>> \in seen
    THEN [m |-> [m EXCEPT !.hung = TRUE, !.stopped = TRUE], comments |-> comments]
    ELSE LET ch == CharAt(m.index)
             seen1 == seen \cup {<<m.index, m.lineStart>>}
         IN  IF IsWhiteSpace(ch)
             THEN ScanCommentsLoop([m EXCEPT !.index = @ + 1], comments, seen1)
             ELSE IF IsLineTerminator(ch)
             THEN LET m1 == [m EXCEPT !.index = @ + 1]
                      m2 == IF ch = "\r" /\ CharAt(m1.index) = "\n"
                            THEN [m1 EXCEPT !.index = @ + 1]
                            ELSE m1
                      m3 == [m2 EXCEPT !.lineNumber = @ + 1, !.lineStart = m2.index]
                  IN  ScanCommentsLoop(m3, comments, seen1)
             ELSE IF ch = "/" /\ CharAt(m.index + 1) = "/"
             THEN LET r == skipSingleLineComment([m EXCEPT !.index = @ + 2], 2)
                  IN  ScanCommentsLoop(r.m,
                                       IF m.trackComment THEN comments \o r.comments
                                       ELSE comments,
                                       seen1)
             ELSE [m |-> m, comments |-> comments]

\* Scanner.scanComments
scanComments(m) ==
    IF m.stopped THEN [m |-> m, comments |-> <<>>]
    ELSE ScanCommentsLoop(m, <<>>, {})

-----------------------------------------------------------------------------
(* Numeric values.  A number is kept as [m, e], meaning m * 10^e, with m    *)
(* not divisible by 10 (and e = 0 when m = 0), so two numbers are equal    *)
(* exactly when their records are.                                         *)

RECURSIVE Normalize(_, _)
Normalize(mant, exp) ==
    IF mant = 0 THEN [m |-> 0, e |-> 0]
    ELSE IF mant % 10 = 0 THEN Normalize(mant \div 10, exp + 1)
    ELSE [m |-> mant, e |-> exp]

Num(n) == Normalize(n, 0)

NotANumber == [m |-> 0, e |-> -1]

\* the value of a digit string in a radix: parseInt(literal, radix)
RECURSIVE parseInt(_, _, _)
parseInt(acc, digits, radix) ==
    IF digits = <<>> THEN acc
    ELSE parseInt(acc * radix + hexValue(Head(digits)), Tail(digits), radix)

\* parseFloat(literal) on the literals scanNumericLiteral builds:
\* digits [. digits] [e [+-] digits]
parseFloat(literal) ==
    LET n == Len(literal)
        IsE(c) == c \in {"e", "E"}
        epos == IF \E i \in 1..n : IsE(literal[i])
                THEN CHOOSE i \in 1..n : IsE(literal[i]) ELSE n + 1
        dpos == IF \E i \in 1..(epos - 1) : literal[i] = "."
                THEN CHOOSE i \in 1..(epos - 1) : literal[i] = "." ELSE epos
        intpart == SubSeq(literal, 1, dpos - 1)
        fracpart == SubSeq(literal, dpos + 1, epos - 1)
        exptext == SubSeq(literal, epos + 1, n)
        negexp == exptext # <<>> /\ Head(exptext) = "-"
        expdigits == IF exptext # <<>> /\ Head(exptext) \in {"+", "-"}
                     THEN Tail(exptext) ELSE exptext
        expval == parseInt(0, expdigits, 10)
    IN  Normalize(parseInt(0, intpart \o fracpart, 10),
                  (IF negexp THEN -expval ELSE expval) - Len(fracpart))

-----------------------------------------------------------------------------
(* Scanner: tokens *)

Tok(type, value, number, m, start) ==
    [type |-> type, value |-> value, number |-> number,
     lineNumber |-> m.lineNumber, lineStart |-> m.lineStart,
     start |-> start, end |-> m.index]

NullChar == "null"
\* the characters '\b' and '\x0B', which a TLA+ string cannot hold
Backspace == "<BS>"
VerticalTab == "<VT>"

\* Scanner.scanHexEscape(prefix): [m, ch], ch = NullChar for null
RECURSIVE HexEscapeLoop(_, _, _)
HexEscapeLoop(m, i, code) ==
    IF i = 0 THEN [m |-> m, ch |-> fromCharCode(code)]
    ELSE IF ~eof(m) /\ IsHexDigit(CharAt(m.index))
    THEN HexEscapeLoop([m EXCEPT !.index = @ + 1], i - 1,
                       code * 16 + hexValue(CharAt(m.index)))
    ELSE [m |-> m, ch |-> NullChar]

scanHexEscape(m, prefix) == HexEscapeLoop(m, IF prefix = "u" THEN 4 ELSE 2, 0)

\* the while loop of scanUnicodeCodePointEscape: [m, ch, code], ch the last character read
RECURSIVE CodePointLoop(_, _, _)
CodePointLoop(m, ch, code) ==
    IF eof(m) THEN [m |-> m, ch |-> ch, code |-> code]
    ELSE LET c == CharAt(m.index)
             m1 == [m EXCEPT !.index = @ + 1]
         IN  IF ~IsHexDigit(c) THEN [m |-> m1, ch |-> c, code |-> code]
             ELSE CodePointLoop(m1, c, code * 16 + hexValue(c))

\* Scanner.scanUnicodeCodePointEscape: [m, ch]
scanUnicodeCodePointEscape(m) ==
    IF CharAt(m.index) = "}"
    THEN [m |-> ScannerThrow(m, Messages.UnexpectedTokenIllegal), ch |-> NullChar]
    ELSE LET r == CodePointLoop(m, CharAt(m.index), 0)
         IN  IF r.code > 1114111 \/ r.ch # "}"
             THEN [m |-> ScannerThrow(r.m, Messages.UnexpectedTokenIllegal), ch |-> NullChar]
             ELSE [m |-> r.m, ch |-> fromCharCode(r.code)]

\* the '\u' escape inside an identifier, after the backslash was consumed:
\* [m, ch]; first tells whether the character must be an identifier start
IdentifierEscape(m, first) ==
    IF CharAt(m.index) # "u"
    THEN [m |-> ScannerThrow(m, Messages.UnexpectedTokenIllegal), ch |-> NullChar]
    ELSE LET m1 == [m EXCEPT !.index = @ + 1]
         IN  IF CharAt(m1.index) = "{"
             THEN scanUnicodeCodePointEscape([m1 EXCEPT !.index = @ + 1])
             ELSE LET r == scanHexEscape(m1, "u")
                      bad == r.ch = NullChar \/ r.ch = "\\"
                             \/ (IF first THEN ~IsIdentifierStart(r.ch)
                                 ELSE ~IsIdentifierPart(r.ch))
                  IN  IF bad
                      THEN [m |-> ScannerThrow(r.m, Messages.UnexpectedTokenIllegal),
                            ch |-> NullChar]
                      ELSE r

\* the while loop of getComplexIdentifier: [m, id]
RECURSIVE ComplexIdentifierLoop(_, _)
ComplexIdentifierLoop(m, id) ==
    IF m.stopped \/ eof(m) THEN [m |-> m, id |-> id]
    ELSE LET cp == CharAt(m.index)
         IN  IF ~IsIdentifierPart(cp) THEN [m |-> m, id |-> id]
             ELSE LET m1 == [m EXCEPT !.index = @ + 1]
                  IN  IF cp = "\\"
                      THEN LET r == Call("IdentifierEscape", <<m1, FALSE>>)
                           IN  ComplexIdentifierLoop(r.m, Append(id, r.ch))
                      ELSE ComplexIdentifierLoop(m1, Append(id, cp))

\* Scanner.getComplexIdentifier: [m, id], id a sequence of characters
getComplexIdentifier(m) ==
    LET cp == CharAt(m.index)
        m1 == [m EXCEPT !.index = @ + 1]
    IN  IF cp = "\\"
        THEN LET r == Call("IdentifierEscape", <<m1, TRUE>>)
             IN  ComplexIdentifierLoop(r.m, <<r.ch>>)
        ELSE ComplexIdentifierLoop(m1, <<cp>>)

\* the while loop of getIdentifier
RECURSIVE IdentifierLoop(_, _)
IdentifierLoop(m, start) ==
    IF eof(m) THEN [m |-> m, id |-> Slice(start, m.index)]
    ELSE LET ch == CharAt(m.index)
         IN  IF ch = "\\"
             THEN Call("getComplexIdentifier", <<[m EXCEPT !.index = start]>>)
             ELSE IF IsIdentifierPart(ch)
             THEN IdentifierLoop([m EXCEPT !.index = @ + 1], start)
             ELSE [m |-> m, id |-> Slice(start, m.index)]

\* Scanner.getIdentifier: [m, id]
getIdentifier(m) == IdentifierLoop([m EXCEPT !.index = @ + 1], m.index)

\* Scanner.isKeyword
isKeyword(id) ==
    CASE Len(id) = 2 -> id \in {"if", "do"}
      [] Len(id) = 3 -> id \in {"def", "end", "for", "let"}
      [] Len(id) = 4 -> id = "else"
      [] Len(id) = 5 -> id \in {"while", "break", "const"}
      [] Len(id) = 6 -> id = "return"
      [] Len(id) = 7 -> id \in {"default", "finally", "extends"}
      [] Len(id) = 8 -> id \in {"function", "continue", "debugger"}
      [] Len(id) = 10 -> id = "instanceof"
      [] OTHER -> FALSE

\* Scanner.scanIdentifier: [m, tok]
scanIdentifier(m) ==
    LET start == m.index
        r == IF CharAt(start) = "\\" THEN Call("getComplexIdentifier", <<m>>) ELSE getIdentifier(m)
        id == Join(r.id)
        type == IF Len(r.id) = 1 THEN "Identifier"
                ELSE IF isKeyword(id) THEN "Keyword"
                ELSE IF id = "null" THEN "NullLiteral"
                ELSE IF id \in {"true", "false"} THEN "BooleanLiteral"
                ELSE "Identifier"
    IN  IF r.m.stopped THEN [m |-> r.m, tok |-> NoToken]
        ELSE LET m1 == IF type # "Identifier" /\ start + Len(r.id) # r.m.index
                       THEN LET restore == r.m.index
                                t == ScannerTolerate([r.m EXCEPT !.index = start],
                                                     Messages.InvalidEscapedReservedWord)
                            IN  IF t.stopped THEN t ELSE [t EXCEPT !.index = restore]
                       ELSE r.m
             IN  IF m1.stopped THEN [m |-> m1, tok |-> NoToken]
                 ELSE [m |-> m1, tok |-> Tok(type, id, NotANumber, m1, start)]

Punctuators3 == {">>>", "<<=", ">>=", "**="}
Punctuators2 == {"&&", "||", "==", "!=", "+=", "-=", "*=", "/=", "++", "--", "<<", ">>",
                 "&=", "|=", "^=", "%=", "<=", ">=", "=>", "**"}
Punctuators1 == {"<", ">", "=", "!", "+", "-", "*", "%", "&", "|", "^", "/"}

\* Scanner.scanPunctuator: [m, tok]
scanPunctuator(m) ==
    LET start == m.index
        c == CharAt(m.index)
        s4 == Substr(m.index, 4)
        s3 == SubSeq(s4, 1, Min(3, Len(s4)))
        s2 == SubSeq(s3, 1, Min(2, Len(s3)))
        r == IF c = "{" THEN [m |-> [m EXCEPT !.index = @ + 1, !.curly = @ + 1], str |-> c]
             ELSE IF c = "}"
             THEN [m |-> [m EXCEPT !.index = @ + 1, !.curly = Max(@ - 1, 0)], str |-> c]
             ELSE IF c \in {"(", ".", ")", ";", ",", "[", "]", ":", "?", "~"}
             THEN [m |-> [m EXCEPT !.index = @ + 1], str |-> c]
             ELSE IF Join(s4) = ">>>="
             THEN [m |-> [m EXCEPT !.index = @ + 4], str |-> Join(s4)]
             ELSE IF Join(s3) \in Punctuators3
             THEN [m |-> [m EXCEPT !.index = @ + 3], str |-> Join(s3)]
             ELSE IF Join(s2) \in Punctuators2
             THEN [m |-> [m EXCEPT !.index = @ + 2], str |-> Join(s2)]
             ELSE IF c \in Punctuators1
             THEN [m |-> [m EXCEPT !.index = @ + 1], str |-> c]
             ELSE [m |-> m, str |-> c]
    IN  IF r.m.index = start
        THEN [m |-> ScannerThrow(r.m, Messages.UnexpectedTokenIllegal), tok |-> NoToken]
        ELSE [m |-> r.m, tok |-> Tok("Punctuator", r.str, NotANumber, r.m, start)]

\* while (isDecimalDigit(charCodeAt(index))) literal += source[index++]: [m, literal]
DecimalDigitsLoop(m, literal) ==
    IF IsDecimalDigit(CharAt(m.index))
    THEN Call("DecimalDigitsLoop", <<[m EXCEPT !.index = @ + 1], Append(literal, CharAt(m.index))>>)
    ELSE [m |-> m, literal |-> literal]

\* the digit loop of scanHexLiteral, scanOctalLiteral and scanBinaryLiteral
RadixDigitsLoop(m, literal, radix) ==
    IF eof(m) THEN [m |-> m, literal |-> literal]
    ELSE LET ch == CharAt(m.index)
             digit == CASE radix = 16 -> IsHexDigit(ch)
                        [] radix = 8 -> IsOctalDigit(ch)
                        [] OTHER -> IsBinaryDigit(ch)
         IN  IF ~digit THEN [m |-> m, literal |-> literal]
             ELSE Call("RadixDigitsLoop", <<[m EXCEPT !.index = @ + 1], Append(literal, ch), radix>>)

scanRadixLiteral_AllowAdjacent(m, start, radix) ==
    LET r == Call("RadixDigitsLoop", <<m, <<>>, radix>>)
    IN  IF Len(r.literal) = 0
        THEN [m |-> ScannerThrow(r.m, Messages.UnexpectedTokenIllegal), tok |-> NoToken]
        ELSE [m |-> r.m,
              tok |-> Tok("NumericLiteral", Join(r.literal),
                          Num(parseInt(0, r.literal, radix)), r.m, start)]

\* Scanner.scanHexLiteral / scanOctalLiteral / scanBinaryLiteral (start): the three
\* differ in the digit class and the radix only: [m, tok]
scanRadixLiteral(m, start, radix) ==
    LET r == Call("RadixDigitsLoop", <<m, <<>>, radix>>)
    IN  IF Len(r.literal) = 0
        THEN [m |-> ScannerThrow(r.m, Messages.UnexpectedTokenIllegal), tok |-> NoToken]
        ELSE IF ~eof(r.m) /\ (IsIdentifierStart(CharAt(r.m.index))
                              \/ IsDecimalDigit(CharAt(r.m.index)))
        THEN [m |-> ScannerThrow(r.m, Messages.UnexpectedTokenIllegal), tok |-> NoToken]
        ELSE [m |-> r.m,
              tok |-> Tok("NumericLiteral", Join(r.literal),
                          Num(parseInt(0, r.literal, radix)), r.m, start)]

\* scanNumericLiteral from the '.' of the fraction on: [m, tok]
NumericTail(m0, literal0, start) ==
    LET ch0 == CharAt(m0.index)
        \* if (ch === '.') ...
        f == IF ch0 = "."
             THEN Call("DecimalDigitsLoop", <<[m0 EXCEPT !.index = @ + 1], Append(literal0, ".")>>)
             ELSE [m |-> m0, literal |-> literal0]
        ch1 == CharAt(f.m.index)
        \* if (ch === 'e' || ch === 'E') ...
        hasExp == ch1 \in {"e", "E"}
        m2 == [f.m EXCEPT !.index = @ + 1]
        sign == CharAt(m2.index)
        m3 == IF sign \in {"+", "-"} THEN [m2 EXCEPT !.index = @ + 1] ELSE m2
        lit3 == IF sign \in {"+", "-"} THEN f.literal \o <<ch1, sign>>
                ELSE Append(f.literal, ch1)
        e == IF ~hasExp THEN f
             ELSE IF IsDecimalDigit(CharAt(m3.index)) THEN Call("DecimalDigitsLoop", <<m3, lit3>>)
             ELSE [m |-> ScannerThrow(m3, Messages.UnexpectedTokenIllegal), literal |-> lit3]
    IN  IF e.m.stopped THEN [m |-> e.m, tok |-> NoToken]
        ELSE IF ~eof(e.m) /\ IsIdentifierStart(CharAt(e.m.index))
        THEN [m |-> ScannerThrow(e.m, Messages.UnexpectedTokenIllegal), tok |-> NoToken]
        ELSE [m |-> e.m,
              tok |-> Tok("NumericLiteral", Join(e.literal), parseFloat(e.literal),
                          e.m, start)]

\* Scanner.scanNumericLiteral: [m, tok]
scanNumericLiteral(m) ==
    LET start == m.index
        ch == CharAt(m.index)
        m1 == [m EXCEPT !.index = @ + 1]
        ch1 == CharAt(m1.index)
        m2 == [m1 EXCEPT !.index = @ + 1]
    IN  IF ch # "."
        THEN IF ch = "0" /\ ch1 \in {"x", "X"} THEN scanRadixLiteral(m2, m2.index, 16)
             ELSE IF ch = "0" /\ ch1 \in {"o", "O"} THEN scanRadixLiteral(m2, m2.index, 8)
             ELSE IF ch = "0" /\ ch1 \in {"b", "B"} THEN scanRadixLiteral(m2, m2.index, 2)
             ELSE LET d == Call("DecimalDigitsLoop", <<m1, <<ch>>>>)
                  IN  IF d.m.stopped THEN [m |-> d.m, tok |-> NoToken]
                      ELSE Call("NumericTail", <<d.m, d.literal, start>>)
        ELSE Call("NumericTail", <<m, <<>>, start>>)

\* the escape of a string literal after the backslash and the character ch
\* were consumed: [m, literal]
StringEscape(m, literal, ch) ==
    IF ch = Undefined \/ ~IsLineTerminator(ch)
    THEN CASE ch = "u" ->
                IF CharAt(m.index) = "{"
                THEN LET r == scanUnicodeCodePointEscape([m EXCEPT !.index = @ + 1])
                     IN  [m |-> r.m, literal |-> Append(literal, r.ch)]
                ELSE LET r == scanHexEscape(m, ch)
                     IN  IF r.ch = NullChar
                         THEN [m |-> ScannerThrow(r.m, Messages.UnexpectedTokenIllegal),
                               literal |-> literal]
                         ELSE [m |-> r.m, literal |-> Append(literal, r.ch)]
           [] ch = "x" ->
                LET r == scanHexEscape(m, ch)
                IN  IF r.ch = NullChar
                    THEN [m |-> ScannerThrow(r.m, Messages.InvalidHexEscapeSequence),
                          literal |-> literal]
                    ELSE [m |-> r.m, literal |-> Append(literal, r.ch)]
           [] ch = "n" -> [m |-> m, literal |-> Append(literal, "\n")]
           [] ch = "r" -> [m |-> m, literal |-> Append(literal, "\r")]
           [] ch = "t" -> [m |-> m, literal |-> Append(literal, "\t")]
           [] ch = "b" -> [m |-> m, literal |-> Append(literal, Backspace)]
           [] ch = "f" -> [m |-> m, literal |-> Append(literal, "\f")]
           [] ch = "v" -> [m |-> m, literal |-> Append(literal, VerticalTab)]
           [] OTHER -> [m |-> m, literal |-> Append(literal, ch)]
    ELSE \* a line continuation
         LET m1 == [m EXCEPT !.lineNumber = @ + 1]
             m2 == IF ch = "\r" /\ CharAt(m1.index) = "\n"
                   THEN [m1 EXCEPT !.index = @ + 1] ELSE m1
         IN  [m |-> [m2 EXCEPT !.lineStart = m2.index], literal |-> literal]

\* the while loop of scanStringLiteral: [m, literal, quote]; quote is "" once
\* the closing quote was read
StringLoop(m, literal, quote) ==
    IF m.stopped \/ eof(m) THEN [m |-> m, literal |-> literal, quote |-> quote]
    ELSE LET ch == CharAt(m.index)
             m1 == [m EXCEPT !.index = @ + 1]
         IN  IF ch = quote THEN [m |-> m1, literal |-> literal, quote |-> ""]
             ELSE IF ch = "\\"
             THEN LET r == StringEscape([m1 EXCEPT !.index = @ + 1], literal,
                                        CharAt(m1.index))
                  IN  Call("StringLoop", <<r.m, r.literal, quote>>)
             ELSE IF IsLineTerminator(ch)
             THEN [m |-> m1, literal |-> literal, quote |-> quote]
             ELSE Call("StringLoop", <<m1, Append(literal, ch), quote>>)

\* Scanner.scanStringLiteral: [m, tok]
scanStringLiteral(m) ==
    LET start == m.index
        r == Call("StringLoop", <<m, <<>>, CharAt(start)>>)
    IN  IF r.m.stopped THEN [m |-> r.m, tok |-> NoToken]
        ELSE IF r.quote # ""
        THEN [m |-> ScannerThrow([r.m EXCEPT !.index = start],
                                 Messages.UnexpectedTokenIllegal),
              tok |-> NoToken]
        ELSE [m |-> r.m,
              tok |-> Tok("StringLiteral", Join(r.literal), NotANumber, r.m, start)]

\* Scanner.lex: [m, tok]
lex(m) ==
    IF m.stopped THEN [m |-> m, tok |-> NoToken]
    ELSE IF eof(m) THEN [m |-> m, tok |-> Tok("EOF", "", NotANumber, m, m.index)]
    ELSE LET cp == CharAt(m.index)
         IN  IF IsIdentifierStart(cp) THEN scanIdentifier(m)
             ELSE IF cp \in {"(", ")", ";"} THEN Call("scanPunctuator", <<m>>)
             ELSE IF cp \in {"'", "\""} THEN scanStringLiteral(m)
             ELSE IF cp = "."
             THEN IF IsDecimalDigit(CharAt(m.index + 1)) THEN scanNumericLiteral(m)
                  ELSE Call("scanPunctuator", <<m>>)
             ELSE IF IsDecimalDigit(cp) THEN scanNumericLiteral(m)
             ELSE Call("scanPunctuator", <<m>>)

-----------------------------------------------------------------------------
(* Objects as state.  The machine of an operation is put together from the *)
(* variables and its result is stored back.                                *)

\* new Scanner(code, handler) with trackComment set by its owner
NewScanner(code) ==
    [index |-> 0, lineNumber |-> IF Len(code) > 0 THEN 1 ELSE 0, lineStart |-> 0, curly |-> 0]

ScannerMachine(sc, errs, track, tol) ==
    [index |-> sc.index, lineNumber |-> sc.lineNumber, lineStart |-> sc.lineStart,
     curly |-> sc.curly, trackComment |-> track, tolerant |-> tol,
     errors |-> errs, exc |-> NoError, hung |-> FALSE, stopped |-> FALSE]

ScannerOf(m) ==
    [index |-> m.index, lineNumber |-> m.lineNumber, lineStart |-> m.lineStart,
     curly |-> m.curly]

StatusOf(m, normal) ==
    IF m.hung THEN "hung" ELSE IF m.exc # NoError THEN "raised" ELSE normal

-----------------------------------------------------------------------------
(* The inputs of the scanner harness: texts made of at most MaxScanFrags   *)
(* of these pieces.                                                        *)

ScanFrags == {
    <<"a">>, <<"\n">>, <<"/", "/">>, <<"/", "/", "\n">>, <<"'">>, <<"#">> }

RECURSIVE Texts(_, _)
Texts(frags, n) ==
    IF n = 0 THEN {<<>>}
    ELSE LET shorter == Texts(frags, n - 1)
         IN  shorter \cup {t \o f : t \in shorter, f \in frags}

ScanSources == Texts(ScanFrags, MaxScanFrags)

-----------------------------------------------------------------------------
(* The scanner harness: a Scanner driven as the Tokenizer and the Parser   *)
(* drive it, by calls of scanComments and lex in any order and by the      *)
(* speculation of Parser.isLexicalDeclaration, the one place that saves    *)
(* and restores the scanner's state.  hist.twin is what the same call      *)
(* makes of the same Scanner when trackComment is the opposite; hist.prev  *)
(* is the token lex returned before, since the last restoreState;          *)
(* hist.trip follows the calls made since a speculation: 1 after it, 2     *)
(* after the scanComments that follows, 3 after the lex after that, 0      *)
(* otherwise; hist.t1 is the token the speculation lexed and hist.saved    *)
(* the state it saved.                                                     *)

NoState == [index |-> -2, lineNumber |-> -2, lineStart |-> -2]

M == ScannerMachine(scanner, errors, config.comment, config.tolerant)
TwinM == ScannerMachine(scanner, errors, ~config.comment, config.tolerant)

\* the harness goes on while the line number is within the bound
InBounds == scanner.lineNumber <= MaxLine

TwinAfter(m) == [scanner |-> ScannerOf(m), errors |-> m.errors,
                 status |-> StatusOf(m, "running")]

\* state = saveState(); scanComments(); next = lex(); restoreState(state)
\* (the first four lines of Parser.isLexicalDeclaration): [m, next, state]
Speculate(m) ==
    LET state == saveState(m)
        r == Call("lex", <<Call("scanComments", <<m>>).m>>)
    IN  [m |-> IF r.m.stopped THEN r.m ELSE restoreState(r.m, state),
         next |-> r.tok, state |-> state]

ScanInit ==
    /\ source \in ScanSources
    /\ config \in [tolerant : {FALSE}, comment : BOOLEAN, tokens : {FALSE}]
    /\ scanner = NewScanner(source)
    /\ errors = <<>>
    /\ parser = Null
    /\ body = <<>>
    /\ status = "running"
    /\ thrown = NoError
    /\ last = [op |-> "new"]
    /\ hist = [twin |-> [scanner |-> NewScanner(source), errors |-> <<>>, status |-> "running"],
               prev |-> NoToken, trip |-> 0, t1 |-> NoToken, saved |-> NoState]

\* a call of Scanner.scanComments()
ScanCommentsCall ==
    /\ status = "running"
    /\ InBounds
    /\ \E r \in {Call("scanComments", <<M>>)}, t \in {Call("scanComments", <<TwinM>>).m} :
           /\ scanner' = ScannerOf(r.m)
           /\ errors' = r.m.errors
           /\ status' = StatusOf(r.m, "running")
           /\ thrown' = r.m.exc
           /\ last' = [op |-> "scanComments", comments |-> r.comments]
           /\ hist' = [hist EXCEPT !.twin = TwinAfter(t),
                                   !.trip = IF @ = 1 THEN 2 ELSE 0]
    /\ UNCHANGED <<source, config, parser, body>>

\* a call of Scanner.lex()
LexCall ==
    /\ status = "running"
    /\ InBounds
    /\ \E r \in {Call("lex", <<M>>)}, t \in {Call("lex", <<TwinM>>).m} :
           /\ scanner' = ScannerOf(r.m)
           /\ errors' = r.m.errors
           /\ status' = StatusOf(r.m, "running")
           /\ thrown' = r.m.exc
           /\ last' = [op |-> "lex", tok |-> r.tok, prev |-> hist.prev, at |-> scanner]
           /\ hist' = [hist EXCEPT !.twin = TwinAfter(t),
                                   !.prev = IF r.tok # NoToken THEN r.tok ELSE @,
                                   !.trip = IF @ = 2 THEN 3 ELSE 0]
    /\ UNCHANGED <<source, config, parser, body>>

\* the speculation of Parser.isLexicalDeclaration
SpeculateCall ==
    /\ status = "running"
    /\ InBounds
    /\ hist.trip # 1
    /\ \E r \in {Call("Speculate", <<M>>)}, t \in {Call("Speculate", <<TwinM>>).m} :
           /\ scanner' = ScannerOf(r.m)
           /\ errors' = r.m.errors
           /\ status' = StatusOf(r.m, "running")
           /\ thrown' = r.m.exc
           /\ last' = [op |-> "speculate", next |-> r.next]
           /\ hist' = [hist EXCEPT !.twin = TwinAfter(t),
                                   !.prev = NoToken,
                                   !.trip = 1, !.t1 = r.next, !.saved = r.state]
    /\ UNCHANGED <<source, config, parser, body>>

ScanNext ==
    \/ ScanCommentsCall
    \/ LexCall
    \/ SpeculateCall

SpecScanner == ScanInit /\ [][ScanNext]_vars

-----------------------------------------------------------------------------
(* Statements about the scanner, checked under SpecScanner *)

Position(sc) == <<sc.index, sc.lineNumber, sc.lineStart>>

\* C7: after state = saveState(); scanComments(); t1 = lex();
\* restoreState(state) the scanner's index, lineNumber and lineStart are
\* the saved ones, and the scanComments(); t2 = lex() that follow give a t2
\* equal to t1 in every field.
C7_RoundTrip ==
    /\ (last.op = "speculate" /\ status = "running")
          => Position(scanner) = Position(hist.saved)
    /\ (hist.trip = 3 /\ status = "running") => last.tok = hist.t1

\* C7 witness: a round trip from the start of a text that begins with a line
\* comment: the token lexed twice is an identifier on line 2.
C7_Witness ==
    /\ hist.trip = 3 /\ status = "running"
    /\ hist.saved = [index |-> 0, lineNumber |-> 1, lineStart |-> 0]
    /\ CharAt(0) = "/"
    /\ last.tok = hist.t1
    /\ last.tok.type = "Identifier" /\ last.tok.lineNumber = 2

\* C9: every token lex returns has start <= end, and its end is at least
\* the end of the token lex returned before it (no restoreState in between).
C9_EndMonotone ==
    (last.op = "lex" /\ last.tok # NoToken)
        => /\ last.tok.start <= last.tok.end
           /\ last.prev # NoToken => last.prev.end <= last.tok.end

\* C10: scanComments leaves index, lineNumber and lineStart at the same
\* values, and ends in the same way, whether trackComment is true or false.
C10_TrackingTransparent ==
    last.op = "scanComments"
        => /\ hist.twin.status = status
           /\ Position(hist.twin.scanner) = Position(scanner)

\* whether the text from offset i holds the quote before the end of the text
\* and before a line terminator that no backslash precedes
RECURSIVE ClosedFrom(_, _)
ClosedFrom(i, quote) ==
    IF i >= Length THEN FALSE
    ELSE IF CharAt(i) = quote THEN TRUE
    ELSE IF CharAt(i) = "\\"
    THEN ClosedFrom(IF CharAt(i + 1) = "\r" /\ CharAt(i + 2) = "\n" THEN i + 3 ELSE i + 2, quote)
    ELSE IF IsLineTerminator(CharAt(i)) THEN FALSE
    ELSE ClosedFrom(i + 1, quote)

\* lex was called at a quote that opens a string literal the text never closes
LexAtUnterminatedString ==
    /\ last.op = "lex"
    /\ CharAt(last.at.index) \in {"'", "\""}
    /\ ~ClosedFrom(last.at.index + 1, CharAt(last.at.index))

\* C11: lex at the opening quote of a string literal that the end of the text
\* or an unescaped line terminator cuts short raises the illegal-token error,
\* and the error's index, lineNumber and column are those of the opening quote.
C11_UnterminatedString ==
    LexAtUnterminatedString =>
        /\ status = "raised"
        /\ thrown.description = Messages.UnexpectedTokenIllegal
        /\ thrown.index = last.at.index
        /\ thrown.lineNumber = last.at.lineNumber
        /\ thrown.column = last.at.index - last.at.lineStart + 1

-----------------------------------------------------------------------------
(* The numeric-literal specification: the scanner harness on the texts     *)
(* prefix digits tail, where digits are the digits of a number of at most  *)
(* MaxRadixValue written in the radix (worked out by repeated division,    *)
(* with or without a leading zero), prefix is the radix prefix in either   *)
(* case ("" for a decimal literal) and tail is nothing or one character    *)
(* that is no digit of the radix.  hist.num describes the text.            *)

MaxRadixValue == 40

LowerDigitChars == DigitChars \o <<"a", "b", "c", "d", "e", "f">>
UpperDigitChars == DigitChars \o <<"A", "B", "C", "D", "E", "F">>

\* the digits of n in the radix, most significant first
RECURSIVE DigitsOf(_, _, _)
DigitsOf(n, radix, chars) ==
    IF n < radix THEN <<chars[n + 1]>>
    ELSE Append(DigitsOf(n \div radix, radix, chars), chars[(n % radix) + 1])

RadixPrefixes ==
    [r \in {2, 8, 10, 16} |->
        CASE r = 16 -> {<<"0", "x">>, <<"0", "X">>}
          [] r = 8 -> {<<"0", "o">>, <<"0", "O">>}
          [] r = 2 -> {<<"0", "b">>, <<"0", "B">>}
          [] OTHER -> {<<>>}]

NumericTails == {"", ";", " ", ")", "g", "x", "_", "$", "2", "8", "9"}

\* the characters that are digits of the radix
RadixDigits(radix) ==
    {c \in DOMAIN HexDigitValues : HexDigitValues[c] < radix}

NumericInit ==
    /\ \E radix \in {2, 8, 10, 16}, n \in 0..MaxRadixValue, tail \in NumericTails,
          chars \in {LowerDigitChars, UpperDigitChars}, bare \in BOOLEAN :
       \E prefix \in RadixPrefixes[radix],
          zeros \in IF radix = 10 THEN {<<>>} ELSE {<<>>, <<"0">>} :
          /\ tail \notin RadixDigits(radix)
          /\ bare => (radix # 10 /\ n = 0 /\ zeros = <<>>)
          /\ LET digits == IF bare THEN <<>> ELSE zeros \o DigitsOf(n, radix, chars)
             IN  /\ source = prefix \o digits \o (IF tail = "" THEN <<>> ELSE <<tail>>)
                 /\ hist = [twin |-> [scanner |-> NewScanner(source), errors |-> <<>>,
                                      status |-> "running"],
                            prev |-> NoToken, trip |-> 0, t1 |-> NoToken, saved |-> NoState,
                            num |-> [radix |-> radix, digits |-> digits, value |-> n,
                                     tail |-> tail]]
    /\ config = [tolerant |-> FALSE, comment |-> FALSE, tokens |-> FALSE]
    /\ scanner = NewScanner(source)
    /\ errors = <<>>
    /\ parser = Null
    /\ body = <<>>
    /\ status = "running"
    /\ thrown = NoError
    /\ last = [op |-> "new"]

SpecNumeric == NumericInit /\ [][ScanNext]_vars

\* lex was called at the start of the text
FirstLex == last.op = "lex" /\ last.at.index = 0

\* the tail is a character that may not follow a numeric literal
AdjacentTail == IsIdentifierStart(hist.num.tail) \/ IsDecimalDigit(hist.num.tail)

\* C12: a radix prefix followed by at least one digit of the radix is a
\* NumericLiteral whose value is the number the digits denote in the radix;
\* a prefix with no digit raises, a decimal digit or an identifier start
\* right after the digits raises, and a decimal literal directly followed by
\* an identifier start raises.
C12_RadixLiterals ==
    FirstLex =>
        IF hist.num.radix # 10
        THEN IF hist.num.digits = <<>> \/ AdjacentTail
             THEN /\ status = "raised"
                  /\ thrown.description = Messages.UnexpectedTokenIllegal
             ELSE /\ status = "running"
                  /\ last.tok.type = "NumericLiteral"
                  /\ last.tok.number = Num(hist.num.value)
        ELSE IsIdentifierStart(hist.num.tail) =>
                 /\ status = "raised"
                 /\ thrown.description = Messages.UnexpectedTokenIllegal

\* 0x1F scanned as the NumericLiteral 31, and 0b12 raised
C12_Witness ==
    /\ FirstLex
    /\ \/ /\ source = <<"0", "x", "1", "F">>
          /\ last.tok.type = "NumericLiteral" /\ last.tok.number = Num(31)
       \/ /\ source = <<"0", "b", "1", "2">>
          /\ status = "raised"

-----------------------------------------------------------------------------
(* The line-information specification: the scanner harness on texts with   *)
(* LF, CR and CR LF line terminators, line comments, blanks, and string    *)
(* literals with a backslash line continuation.                            *)

MaxLineInfoFrags == 4

LineInfoFrags == {
    <<"a">>, <<" ">>, <<"\n">>, <<"\r">>, <<"/", "/", "\n">>, <<"'">> }

\* string literals with a line continuation, first on their line and after a line
ContinuedStrings == {
    <<"'", "a", "\\", "\n", "b", "'">>,
    <<"'", "\\", "\r", "\n", "'", " ", "a">>,
    <<"a", "\n", "'", "\\", "\n", "'">>,
    <<"\"", "\\", "\r", "\"", "\n", "a">> }

LineInfoInit ==
    /\ source \in (Texts(LineInfoFrags, MaxLineInfoFrags) \ {<<>>}) \cup ContinuedStrings
    /\ config \in [tolerant : {FALSE}, comment : BOOLEAN, tokens : {FALSE}]
    /\ scanner = NewScanner(source)
    /\ errors = <<>>
    /\ parser = Null
    /\ body = <<>>
    /\ status = "running"
    /\ thrown = NoError
    /\ last = [op |-> "new"]
    /\ hist = [twin |-> [scanner |-> NewScanner(source), errors |-> <<>>, status |-> "running"],
               prev |-> NoToken, trip |-> 0, t1 |-> NoToken, saved |-> NoState]

SpecLineInfo == LineInfoInit /\ [][ScanNext]_vars

\* the line terminators in source[0, i), CR LF counted once
TerminatorsBefore(i) ==
    Cardinality({j \in 0..(i - 1) :
                    /\ IsLineTerminator(CharAt(j))
                    /\ ~(CharAt(j) = "\r" /\ j + 1 < i /\ CharAt(j + 1) = "\n")})

\* the offset just after the last line terminator before offset i, 0 if there is none
StartOfLine(i) ==
    LET ends == {j \in 1..i : IsLineTerminator(CharAt(j - 1))}
    IN  IF ends = {} THEN 0 ELSE CHOOSE j \in ends : \A k \in ends : k <= j

\* lex() returned a token
LexReturned == last.op = "lex" /\ last.tok # NoToken /\ status = "running"

\* C26: every token lex() returns on a non-empty source has lineNumber equal to 1 plus
\* the number of line terminators (CR LF counted once) in source[0, start), and
\* lineStart equal to the offset just after the last line terminator before start (0
\* if there is none); a string literal with a line continuation is no exception.
C26_LineInfoAtStart ==
    LexReturned =>
        /\ last.tok.start >= 0
        /\ last.tok.lineNumber = 1 + TerminatorsBefore(last.tok.start)
        /\ last.tok.lineStart = StartOfLine(last.tok.start)

\* the same with the comment option off
C26_WithoutTracking == config.comment \/ C26_LineInfoAtStart

\* lex() never returns a string literal that holds a line continuation:
\* scanStringLiteral ends every string literal at its opening quote
C26_NoContinuedString ==
    ~(/\ LexReturned /\ last.tok.type = "StringLiteral"
      /\ \E i \in last.tok.start..(last.tok.end - 2) :
             CharAt(i) = "\\" /\ IsLineTerminator(CharAt(i + 1)))

-----------------------------------------------------------------------------
(* The error-handler harness: an ErrorHandler whose tolerant flag is       *)
(* either value and whose owner calls tolerate and tolerateError with      *)
(* diagnostics at a few positions.  hist.before is the errors list before  *)
(* the last call, last.error the diagnostic the call was about.            *)

Handler == [errors |-> errors, exc |-> NoError, stopped |-> FALSE]

Descriptions == {Messages.IllegalReturn, Messages.UnexpectedTokenIllegal}

ErrorsInit ==
    /\ source = <<>>
    /\ config \in [tolerant : BOOLEAN, comment : {FALSE}, tokens : {FALSE}]
    /\ scanner = NewScanner(source)
    /\ errors = <<>>
    /\ parser = Null
    /\ body = <<>>
    /\ status = "running"
    /\ thrown = NoError
    /\ last = [op |-> "new"]
    /\ hist = [before |-> <<>>]

\* a call of ErrorHandler.tolerate(error)
TolerateCall ==
    /\ status = "running"
    /\ Len(errors) < MaxErrors
    /\ \E index \in 0..1, description \in Descriptions :
         LET error == createError(index, 1, index + 1, description)
             r == tolerate(Handler, config.tolerant, error)
         IN  /\ errors' = r.errors
             /\ thrown' = r.exc
             /\ status' = IF r.exc # NoError THEN "raised" ELSE "running"
             /\ last' = [op |-> "tolerate", error |-> error]
             /\ hist' = [before |-> errors]
    /\ UNCHANGED <<source, config, scanner, parser, body>>

\* a call of ErrorHandler.tolerateError(index, line, col, description)
TolerateErrorCall ==
    /\ status = "running"
    /\ Len(errors) < MaxErrors
    /\ \E index \in 0..1, line \in 1..2, description \in Descriptions :
         LET r == tolerateError(Handler, config.tolerant, index, line, index + 1, description)
         IN  /\ errors' = r.errors
             /\ thrown' = r.exc
             /\ status' = IF r.exc # NoError THEN "raised" ELSE "running"
             /\ last' = [op |-> "tolerateError",
                         error |-> createError(index, line, index + 1, description)]
             /\ hist' = [before |-> errors]
    /\ UNCHANGED <<source, config, scanner, parser, body>>

ErrorsNext ==
    \/ TolerateCall
    \/ TolerateErrorCall

SpecErrors == ErrorsInit /\ [][ErrorsNext]_vars

\* C1: a call of tolerate or tolerateError on a tolerant handler returns
\* with exactly that one error appended to the end of the errors list; on a
\* handler that is not tolerant it raises that error and leaves the list as
\* it was.
C1_Tolerate ==
    last.op \in {"tolerate", "tolerateError"}
        => IF config.tolerant
           THEN status = "running" /\ thrown = NoError
                /\ errors = Append(hist.before, last.error)
           ELSE status = "raised" /\ thrown = last.error
                /\ errors = hist.before

\* C1 witness: a tolerant handler that holds two errors in the order in which
\* they were tolerated, the second one by tolerateError.
C1_Witness ==
    /\ config.tolerant /\ last.op = "tolerateError" /\ status = "running"
    /\ Len(errors) = 2 /\ errors[2] = last.error /\ errors[1] # errors[2]
    /\ errors[1] = hist.before[1]

-----------------------------------------------------------------------------
(* AST nodes (lib/esprima/nodes.ts).  A missing expression is               *)
(* UndefinedNode, JavaScript's undefined; null is Null.  The value of a    *)
(* Literal is tagged with its kind, so that any two values can be compared. *)

UndefinedNode == [type |-> "undefined"]

NodeAssignmentExpression(operator, left, right) ==
    [type |-> "AssignmentExpression", operator |-> operator, left |-> left, right |-> right]
NodeBinaryExpression(operator, left, right) ==
    [type |-> IF operator \in {"||", "&&"} THEN "LogicalExpression" ELSE "BinaryExpression",
     operator |-> operator, left |-> left, right |-> right]
NodeBlockStatement(stmts) == [type |-> "BlockStatement", body |-> stmts]
NodeBreakStatement(label) == [type |-> "BreakStatement", label |-> label]
NodeCallExpression(callee, args) ==
    [type |-> "CallExpression", callee |-> callee, arguments |-> args]
NodeConditionalExpression(test, consequent, alternate) ==
    [type |-> "ConditionalExpression", test |-> test, consequent |-> consequent,
     alternate |-> alternate]
NodeContinueStatement(label) == [type |-> "ContinueStatement", label |-> label]
NodeDebuggerStatement == [type |-> "DebuggerStatement"]
NodeDoWhileStatement(stmt, test) == [type |-> "DoWhileStatement", body |-> stmt, test |-> test]
NodeEmptyStatement == [type |-> "EmptyStatement"]
NodeExpressionStatement(expression) ==
    [type |-> "ExpressionStatement", expression |-> expression]
NodeForStatement(init, test, update, stmt) ==
    [type |-> "ForStatement", init |-> init, test |-> test, update |-> update, body |-> stmt]
NodeFunctionDeclaration(id, params, stmt, generator) ==
    [type |-> "FunctionDeclaration", id |-> id, params |-> params, body |-> stmt,
     generator |-> generator, expression |-> FALSE, async |-> FALSE]
NodeFunctionExpression(id, params, stmt, generator) ==
    [type |-> "FunctionExpression", id |-> id, params |-> params, body |-> stmt,
     generator |-> generator, expression |-> FALSE, async |-> FALSE]
NodeIdentifier(name) == [type |-> "Identifier", name |-> name]
NodeIfStatement(test, consequent, alternate) ==
    [type |-> "IfStatement", test |-> test, consequent |-> consequent, alternate |-> alternate]
NodeLabeledStatement(label, stmt) == [type |-> "LabeledStatement", label |-> label, body |-> stmt]
NodeLiteral(value, raw) == [type |-> "Literal", value |-> value, raw |-> raw]
NodeReturnStatement(argument) == [type |-> "ReturnStatement", argument |-> argument]
NodeScript(stmts) == [type |-> "Program", body |-> stmts, sourceType |-> "script"]
NodeSequenceExpression(expressions) ==
    [type |-> "SequenceExpression", expressions |-> expressions]
NodeThrowStatement(argument) == [type |-> "ThrowStatement", argument |-> argument]
NodeUnaryExpression(operator, argument) ==
    [type |-> "UnaryExpression", operator |-> operator, argument |-> argument, prefix |-> TRUE]
NodeUpdateExpression(operator, argument, prefix) ==
    [type |-> "UpdateExpression", operator |-> operator, argument |-> argument,
     prefix |-> prefix]
NodeVariableDeclaration(declarations, kind) ==
    [type |-> "VariableDeclaration", declarations |-> declarations, kind |-> kind]
NodeVariableDeclarator(id, init) == [type |-> "VariableDeclarator", id |-> id, init |-> init]
NodeWhileStatement(test, stmt) == [type |-> "WhileStatement", test |-> test, body |-> stmt]
NodeAssignmentPattern(left, right) ==
    [type |-> "AssignmentPattern", left |-> left, right |-> right]

\* the values a Literal holds
NumberValue(number) == [kind |-> "number", number |-> number]
StringValue(string) == [kind |-> "string", string |-> string]
BooleanValue(boolean) == [kind |-> "boolean", boolean |-> boolean]
NullValue == [kind |-> "null"]

-----------------------------------------------------------------------------
(* Parser.  Its machine p carries the fields of its Scanner and of its     *)
(* ErrorHandler (as above) and its own: lookahead, hasLineTerminator,      *)
(* context, startMarker, lastMarker, tokens, and tokensOn = config.tokens. *)
(* config.range and config.loc are off and there is no delegate, as when   *)
(* parse is called with the options of this model.  A production returns   *)
(* [m, node]: the machine after it and the node it returns.                *)

\* a failure that is not a diagnostic: reading a property of undefined
TypeError == [name |-> "TypeError"]

\* a failure that is not a diagnostic: the call stack is exhausted
RangeError == [name |-> "RangeError"]

\* What the control of a statement loop depends on at its head: the place of the
\* scanner, the lookahead (its line relative to the scanner's) and the context.  A
\* loop that is at a head it was at before in the same call never ends; a loop that
\* is at a head of a call that is still active recurses without end.  frames holds
\* the heads of the active calls.
LoopHead(p) ==
    <<p.index, p.lineStart, p.lookahead.type, p.lookahead.value, p.lookahead.start,
      p.lookahead.lineStart, p.lineNumber - p.lookahead.lineNumber, p.hasLineTerminator,
      p.context>>

Hang(p) == [p EXCEPT !.hung = TRUE, !.stopped = TRUE]

Ret(p, node) == [m |-> p, node |-> node]

\* an assignment to fields of the parser: not reached once an exception is on its way
Then(p, q) == IF p.stopped THEN p ELSE q

Marker(index, line, column) == [index |-> index, line |-> line, column |-> column]

\* messageFormat.replace(/%(\d)/g, ...) on the messages that hold a placeholder
Format(messageFormat, values) ==
    CASE messageFormat = Messages.UnexpectedToken -> "Unexpected token " \o values[1]
      [] messageFormat = Messages.UnknownLabel -> "Undefined label '" \o values[1] \o "'"
      [] messageFormat = Messages.Redeclaration ->
            values[1] \o " '" \o values[2] \o "' has already been declared"
      [] messageFormat = Messages.DeclarationMissingInitializer ->
            "Missing initializer in " \o values[1] \o " declaration"
      [] OTHER -> messageFormat

\* Parser.throwError(messageFormat, ...values)
ParserThrowError(p, messageFormat, values) ==
    Throw(p, createError(p.lastMarker.index, p.lastMarker.line, p.lastMarker.column + 1,
                         Format(messageFormat, values)))

\* Parser.tolerateError(messageFormat, ...values)
ParserTolerateError(p, messageFormat, values) ==
    tolerateError(p, p.tolerant, p.lastMarker.index, p.lineNumber, p.lastMarker.column + 1,
                  Format(messageFormat, values))

\* Parser.unexpectedTokenError(token, message): message "" is a message not given
unexpectedTokenError(p, token, message) ==
    LET msg == IF message # "" THEN message
               ELSE IF token.type = "Keyword" THEN Messages.UnexpectedReserved
               ELSE IF token.type = "EOF" THEN Messages.UnexpectedEOS
               ELSE IF token.type = "Identifier" THEN Messages.UnexpectedIdentifier
               ELSE IF token.type = "NumericLiteral" THEN Messages.UnexpectedNumber
               ELSE IF token.type = "StringLiteral" THEN Messages.UnexpectedString
               ELSE Messages.UnexpectedToken
        lastMarkerLineStart == p.lastMarker.index - p.lastMarker.column
    IN  createError(token.start, token.lineNumber, token.start - lastMarkerLineStart + 1,
                    Format(msg, <<token.value>>))

\* Parser.throwUnexpectedToken(token, message)
throwUnexpectedToken(p, token, message) ==
    IF p.stopped THEN p ELSE Throw(p, Call("unexpectedTokenError", <<p, token, message>>))

\* Parser.tolerateUnexpectedToken(token, message)
tolerateUnexpectedToken(p, token, message) ==
    IF p.stopped THEN p
    ELSE tolerate(p, p.tolerant, Call("unexpectedTokenError", <<p, token, message>>))

\* Parser.collectComments: without a delegate the comments are dropped
collectComments(p) == Call("scanComments", <<p>>).m

\* Parser.getTokenRaw
getTokenRaw(token) == Join(Slice(token.start, token.end))

\* Parser.convertToken with config.range and config.loc off; TokenName[type] is
\* the name of the type, except that a StringLiteral is called String and a
\* NumericLiteral Numeric
convertToken(token) ==
    [type |-> CASE token.type = "StringLiteral" -> "String"
                [] token.type = "NumericLiteral" -> "Numeric"
                [] token.type = "BooleanLiteral" -> "Boolean"
                [] token.type = "NullLiteral" -> "Null"
                [] OTHER -> token.type,
     value |-> getTokenRaw(token)]

\* Parser.nextToken: [m, tok], tok the token that was the lookahead
nextToken(p) ==
    IF p.stopped THEN [m |-> p, tok |-> NoToken]
    ELSE LET token == p.lookahead
             p1 == [p EXCEPT !.lastMarker = Marker(p.index, p.lineNumber, p.index - p.lineStart)]
             p2 == collectComments(p1)
             p3 == IF ~p2.stopped /\ p2.index # p2.startMarker.index
                   THEN [p2 EXCEPT !.startMarker =
                             Marker(p2.index, p2.lineNumber, p2.index - p2.lineStart)]
                   ELSE p2
             r == Call("lex", <<p3>>)
         IN  IF r.m.stopped THEN [m |-> r.m, tok |-> NoToken]
             ELSE LET p4 == [r.m EXCEPT
                                !.hasLineTerminator = (token.lineNumber # r.tok.lineNumber),
                                !.lookahead = r.tok]
                      p5 == IF p4.tokensOn /\ r.tok.type # "EOF"
                            THEN [p4 EXCEPT !.tokens = Append(@, convertToken(r.tok))]
                            ELSE p4
                  IN  [m |-> p5, tok |-> token]

\* new Parser(code, options, delegate) for the code in source
NewParser(cfg) ==
    LET line == IF Length > 0 THEN 1 ELSE 0
        p0 == [index |-> 0, lineNumber |-> line, lineStart |-> 0, curly |-> 0,
               trackComment |-> cfg.comment, tolerant |-> cfg.tolerant,
               errors |-> <<>>, exc |-> NoError, hung |-> FALSE, stopped |-> FALSE,
               frames |-> {},
               lookahead |-> [type |-> "EOF", value |-> "", number |-> NotANumber,
                              lineNumber |-> line, lineStart |-> 0, start |-> 0, end |-> 0],
               hasLineTerminator |-> FALSE,
               context |-> [firstCoverInitializedNameError |-> Null,
                            isAssignmentTarget |-> FALSE, isBindingElement |-> FALSE,
                            inFunctionBody |-> FALSE, inIteration |-> FALSE, labelSet |-> {}],
               tokens |-> <<>>, tokensOn |-> cfg.tokens,
               startMarker |-> Marker(0, line, 0), lastMarker |-> Marker(0, line, 0)]
        p1 == Call("nextToken", <<p0>>).m
    IN  Then(p1, [p1 EXCEPT !.lastMarker =
                      Marker(p1.index, p1.lineNumber, p1.index - p1.lineStart)])

\* Parser.createNode, Parser.startNode
createNode(p) == p.startMarker
startNode(token) == Marker(token.start, token.lineNumber, token.start - token.lineStart)

\* Parser.finalize with config.range and config.loc off and no delegate
finalize(p, marker, node) == node

\* Parser.expect(value)
expect(p, value) ==
    LET r == Call("nextToken", <<p>>)
    IN  IF r.m.stopped THEN r.m
        ELSE IF r.tok.type # "Punctuator" \/ r.tok.value # value
        THEN throwUnexpectedToken(r.m, r.tok, "")
        ELSE r.m

\* Parser.match, matchKeyword, matchContextualKeyword, matchAssign
match(p, value) == p.lookahead.type = "Punctuator" /\ p.lookahead.value = value
matchKeyword(p, keyword) == p.lookahead.type = "Keyword" /\ p.lookahead.value = keyword
matchContextualKeyword(p, keyword) ==
    p.lookahead.type = "Identifier" /\ p.lookahead.value = keyword
matchAssign(p) ==
    /\ p.lookahead.type = "Punctuator"
    /\ p.lookahead.value \in {"=", "*=", "**=", "/=", "%=", "+=", "-=", "<<=", ">>=", ">>>=",
                              "&=", "^=", "|="}

\* Parser.expectCommaSeparator
expectCommaSeparator(p) ==
    IF p.stopped THEN p
    ELSE IF p.tolerant
    THEN LET token == p.lookahead
         IN  IF token.type = "Punctuator" /\ token.value = ","
             THEN Call("nextToken", <<p>>).m
             ELSE IF token.type = "Punctuator" /\ token.value = ";"
             THEN tolerateUnexpectedToken(Call("nextToken", <<p>>).m, token, "")
             ELSE tolerateUnexpectedToken(p, token, Messages.UnexpectedToken)
    ELSE Call("expect", <<p, ",">>)

\* Parser.expectKeyword(keyword)
expectKeyword(p, keyword) ==
    LET r == Call("nextToken", <<p>>)
    IN  IF r.m.stopped THEN r.m
        ELSE IF r.tok.type # "Keyword" \/ r.tok.value # keyword
        THEN throwUnexpectedToken(r.m, r.tok, "")
        ELSE r.m

\* this.context.isAssignmentTarget = a; this.context.isBindingElement = b
SetCover(p, a, b) ==
    Then(p, [p EXCEPT !.context.isAssignmentTarget = a, !.context.isBindingElement = b])

\* the context in which isolateCoverGrammar and inheritCoverGrammar call parseFunction
CoverGrammar(p) ==
    [p EXCEPT !.context.isBindingElement = TRUE,
              !.context.isAssignmentTarget = TRUE,
              !.context.firstCoverInitializedNameError = Null]

isolateCoverGrammar_NoRestore(p, r) ==
    IF r.m.stopped THEN Ret(r.m, UndefinedNode)
    ELSE IF r.m.context.firstCoverInitializedNameError # Null
    THEN Ret(throwUnexpectedToken(r.m, r.m.context.firstCoverInitializedNameError, ""), UndefinedNode)
    ELSE r

\* Parser.isolateCoverGrammar(parseFunction), called on p: r is what parseFunction
\* returned on CoverGrammar(p)
isolateCoverGrammar(p, r) ==
    IF r.m.stopped THEN Ret(r.m, UndefinedNode)
    ELSE IF r.m.context.firstCoverInitializedNameError # Null
    THEN Ret(throwUnexpectedToken(r.m, r.m.context.firstCoverInitializedNameError, ""),
             UndefinedNode)
    ELSE Ret([r.m EXCEPT
                 !.context.isBindingElement = p.context.isBindingElement,
                 !.context.isAssignmentTarget = p.context.isAssignmentTarget,
                 !.context.firstCoverInitializedNameError =
                     p.context.firstCoverInitializedNameError],
             r.node)

inheritCoverGrammar_LastWins(p, r) ==
    IF r.m.stopped THEN Ret(r.m, UndefinedNode)
    ELSE Ret([r.m EXCEPT !.context.isBindingElement = @ /\ p.context.isBindingElement,
                         !.context.isAssignmentTarget = @ /\ p.context.isAssignmentTarget,
                         !.context.firstCoverInitializedNameError =
                             IF @ # Null THEN @
                             ELSE p.context.firstCoverInitializedNameError], r.node)

\* Parser.inheritCoverGrammar(parseFunction), called on p: r is what parseFunction
\* returned on CoverGrammar(p)
inheritCoverGrammar(p, r) ==
    IF r.m.stopped THEN Ret(r.m, UndefinedNode)
    ELSE Ret([r.m EXCEPT
                 !.context.isBindingElement = @ /\ p.context.isBindingElement,
                 !.context.isAssignmentTarget = @ /\ p.context.isAssignmentTarget,
                 !.context.firstCoverInitializedNameError =
                     IF p.context.firstCoverInitializedNameError # Null
                     THEN p.context.firstCoverInitializedNameError ELSE @],
             r.node)

\* Parser.consumeSemicolon
consumeSemicolon(p) ==
    IF p.stopped THEN p
    ELSE IF match(p, ";") THEN Call("nextToken", <<p>>).m
    ELSE IF ~p.hasLineTerminator
    THEN IF p.lookahead.type # "EOF" /\ ~match(p, "}")
         THEN throwUnexpectedToken(p, p.lookahead, "")
         ELSE [p EXCEPT !.lastMarker = p.startMarker]
    ELSE p

-----------------------------------------------------------------------------
(* Parser: expressions *)

RECURSIVE parseFunctionExpression(_)

\* this.throwUnexpectedToken(this.nextToken())
ThrowNextToken(p) ==
    LET r == Call("nextToken", <<p>>)
    IN  IF r.m.stopped THEN Ret(r.m, UndefinedNode)
        ELSE Ret(throwUnexpectedToken(r.m, r.tok, ""), UndefinedNode)

\* while (this.match(',')) { this.nextToken(); expressions.push(<cover>(parseAssignment-
\* Expression)); }, the loop of parseGroupExpression (inherit), of parseExpression and of
\* the init of parseForStatement (isolate): [m, node], node the list
RECURSIVE CommaLoop(_, _, _)
CommaLoop(p, expressions, inherit) ==
    IF p.stopped \/ ~match(p, ",") THEN Ret(p, expressions)
    ELSE LET p1 == Call("nextToken", <<p>>).m
             c == Call("parseAssignmentExpression", <<CoverGrammar(p1)>>)
             r == IF inherit THEN inheritCoverGrammar(p1, c) ELSE isolateCoverGrammar(p1, c)
         IN  IF c.m.stopped THEN Ret(r.m, Append(expressions, r.node))
             ELSE CommaLoop(r.m, Append(expressions, r.node), inherit)

parseGroupExpression_KeepBinding(p) ==
    LET p1 == Call("expect", <<p, "(">>)
    IN  IF p1.stopped \/ match(p1, ")") THEN Ret(p1, UndefinedNode)
        ELSE LET rAt == [p1 EXCEPT !.context.isBindingElement = TRUE]
                 c == Call("parseAssignmentExpression", <<CoverGrammar(rAt)>>)
                 r == inheritCoverGrammar(rAt, c)
                 s == IF ~r.m.stopped /\ match(r.m, ",")
                      THEN LET l == CommaLoop([r.m EXCEPT !.context.isAssignmentTarget = FALSE],
                                              <<r.node>>, TRUE)
                           IN  Ret(l.m, NodeSequenceExpression(l.node))
                      ELSE r
             IN  IF c.m.stopped THEN Ret(c.m, UndefinedNode)
                 ELSE IF s.m.stopped THEN Ret(s.m, UndefinedNode)
                 ELSE LET p2 == Call("expect", <<s.m, ")">>)
                      IN  IF p2.stopped THEN Ret(p2, UndefinedNode)
                          ELSE Ret(p2, s.node)

\* Parser.parseGroupExpression
parseGroupExpression(p) ==
    LET p1 == Call("expect", <<p, "(">>)
    IN  IF p1.stopped \/ match(p1, ")") THEN Ret(p1, UndefinedNode)
        ELSE LET rAt == [p1 EXCEPT !.context.isBindingElement = TRUE]
                 c == Call("parseAssignmentExpression", <<CoverGrammar(rAt)>>)
                 r == inheritCoverGrammar(rAt, c)
                 s == IF ~r.m.stopped /\ match(r.m, ",")
                      THEN LET l == CommaLoop([r.m EXCEPT !.context.isAssignmentTarget = FALSE],
                                              <<r.node>>, TRUE)
                           IN  Ret(l.m, NodeSequenceExpression(l.node))
                      ELSE r
             IN  IF c.m.stopped THEN Ret(c.m, UndefinedNode)
                 ELSE IF s.m.stopped THEN Ret(s.m, UndefinedNode)
                 ELSE LET p2 == Call("expect", <<s.m, ")">>)
                      IN  IF p2.stopped THEN Ret(p2, UndefinedNode)
                          ELSE Ret([p2 EXCEPT !.context.isBindingElement = FALSE], s.node)

\* Parser.parsePrimaryExpression
parsePrimaryExpression(p) ==
    IF p.stopped THEN Ret(p, UndefinedNode)
    ELSE LET type == p.lookahead.type
         IN  IF type = "Identifier"
             THEN LET r == Call("nextToken", <<p>>)
                  IN  IF r.m.stopped THEN Ret(r.m, UndefinedNode)
                      ELSE Ret(r.m, NodeIdentifier(r.tok.value))
             ELSE IF type \in {"NumericLiteral", "StringLiteral", "BooleanLiteral", "NullLiteral"}
             THEN LET r == Call("nextToken", <<SetCover(p, FALSE, FALSE)>>)
                      raw == getTokenRaw(r.tok)
                      value == CASE type = "NumericLiteral" -> NumberValue(r.tok.number)
                                 [] type = "StringLiteral" -> StringValue(r.tok.value)
                                 [] type = "BooleanLiteral" -> BooleanValue(r.tok.value = "true")
                                 [] OTHER -> NullValue
                  IN  IF r.m.stopped THEN Ret(r.m, UndefinedNode)
                      ELSE Ret(r.m, NodeLiteral(value, raw))
             ELSE IF type = "Punctuator"
             THEN IF p.lookahead.value = "("
                  THEN LET q == [p EXCEPT !.context.isBindingElement = FALSE]
                           c == Call("parseGroupExpression", <<CoverGrammar(q)>>)
                       IN  IF c.m.stopped THEN Ret(c.m, UndefinedNode)
                           ELSE inheritCoverGrammar(q, c)
                  ELSE ThrowNextToken(p)
             ELSE IF type = "Keyword"
             THEN IF matchKeyword(p, "let")
                  THEN LET r == Call("nextToken", <<p>>)
                       IN  IF r.m.stopped THEN Ret(r.m, UndefinedNode)
                           ELSE Ret(r.m, NodeIdentifier(r.tok.value))
                  ELSE IF matchKeyword(p, "def")
                  THEN parseFunctionExpression(SetCover(p, FALSE, FALSE))
                  ELSE ThrowNextToken(SetCover(p, FALSE, FALSE))
             ELSE ThrowNextToken(p)

\* the loop of parseArguments: [m, node], node the list of arguments
RECURSIVE ArgumentsLoop(_, _)
ArgumentsLoop(p, args) ==
    IF p.stopped THEN Ret(p, args)
    ELSE LET c == Call("parseAssignmentExpression", <<CoverGrammar(p)>>)
             r == isolateCoverGrammar(p, c)
             args1 == Append(args, r.node)
         IN  IF c.m.stopped \/ r.m.stopped \/ match(r.m, ")") THEN Ret(r.m, args1)
             ELSE LET p1 == expectCommaSeparator(r.m)
                  IN  IF p1.stopped \/ match(p1, ")") THEN Ret(p1, args1)
                      ELSE ArgumentsLoop(p1, args1)

\* Parser.parseArguments: [m, node], node the list of arguments
parseArguments(p) ==
    LET p1 == Call("expect", <<p, "(">>)
        l == IF ~p1.stopped /\ ~match(p1, ")") THEN ArgumentsLoop(p1, <<>>) ELSE Ret(p1, <<>>)
    IN  IF l.m.stopped THEN l ELSE Ret(Call("expect", <<l.m, ")">>), l.node)

CallLoop_KeepFlags(p, expr) ==
    IF p.stopped \/ ~match(p, "(") THEN Ret(p, expr)
    ELSE LET a == parseArguments(p)
             call == NodeCallExpression(expr, a.node)
         IN  IF a.m.stopped THEN Ret(a.m, call) ELSE Call("CallLoop", <<a.m, call>>)

\* the loop of parseLeftHandSideExpressionAllowCall
CallLoop(p, expr) ==
    IF p.stopped \/ ~match(p, "(") THEN Ret(p, expr)
    ELSE LET a == parseArguments(SetCover(p, FALSE, FALSE))
             call == NodeCallExpression(expr, a.node)
         IN  IF a.m.stopped THEN Ret(a.m, call) ELSE Call("CallLoop", <<a.m, call>>)

\* Parser.parseLeftHandSideExpressionAllowCall
parseLeftHandSideExpressionAllowCall(p) ==
    LET c == Call("parsePrimaryExpression", <<CoverGrammar(p)>>)
        r == inheritCoverGrammar(p, c)
    IN  IF c.m.stopped THEN Ret(c.m, UndefinedNode)
        ELSE LET l == Call("CallLoop", <<r.m, r.node>>)
             IN  IF l.m.stopped THEN Ret(l.m, UndefinedNode) ELSE l

\* Parser.parseUpdateExpression
parseUpdateExpression(p) ==
    IF p.stopped THEN Ret(p, UndefinedNode)
    ELSE IF match(p, "++") \/ match(p, "--")
    THEN LET t == Call("nextToken", <<p>>)
             r == inheritCoverGrammar(t.m, Call("parseUnaryExpression", <<CoverGrammar(t.m)>>))
             p1 == IF ~r.m.stopped /\ ~r.m.context.isAssignmentTarget
                   THEN Call("ParserTolerateError", <<r.m, Messages.InvalidLHSInAssignment, <<>>>>)
                   ELSE r.m
         IN  IF p1.stopped THEN Ret(p1, UndefinedNode)
             ELSE Ret(SetCover(p1, FALSE, FALSE),
                      NodeUpdateExpression(t.tok.value, r.node, TRUE))
    ELSE LET c == Call("parseLeftHandSideExpressionAllowCall", <<CoverGrammar(p)>>)
             r == inheritCoverGrammar(p, c)
             q == r.m
         IN  IF c.m.stopped THEN Ret(c.m, UndefinedNode)
             ELSE IF ~q.hasLineTerminator /\ q.lookahead.type = "Punctuator"
                     /\ (match(q, "++") \/ match(q, "--"))
             THEN LET p1 == IF ~q.context.isAssignmentTarget
                            THEN Call("ParserTolerateError", <<q, Messages.InvalidLHSInAssignment, <<>>>>)
                            ELSE q
                      t == Call("nextToken", <<SetCover(p1, FALSE, FALSE)>>)
                  IN  IF t.m.stopped THEN Ret(t.m, UndefinedNode)
                      ELSE Ret(t.m, NodeUpdateExpression(t.tok.value, r.node, FALSE))
             ELSE r

\* Parser.parseUnaryExpression
parseUnaryExpression(p) ==
    IF p.stopped THEN Ret(p, UndefinedNode)
    ELSE IF \/ match(p, "+") \/ match(p, "-") \/ match(p, "~") \/ match(p, "!")
            \/ matchKeyword(p, "delete") \/ matchKeyword(p, "void") \/ matchKeyword(p, "typeof")
    THEN LET t == Call("nextToken", <<p>>)
             r == inheritCoverGrammar(t.m, Call("parseUnaryExpression", <<CoverGrammar(t.m)>>))
         IN  IF r.m.stopped THEN Ret(r.m, UndefinedNode)
             ELSE Ret(SetCover(r.m, FALSE, FALSE), NodeUnaryExpression(t.tok.value, r.node))
    ELSE parseUpdateExpression(p)

\* Parser.parseExponentiationExpression
parseExponentiationExpression(p) ==
    LET c == Call("parseUnaryExpression", <<CoverGrammar(p)>>)
        r == inheritCoverGrammar(p, c)
    IN  IF c.m.stopped THEN Ret(c.m, UndefinedNode)
        ELSE IF r.node = UndefinedNode THEN Ret(Throw(r.m, TypeError), UndefinedNode)
        ELSE IF r.node.type # "UnaryExpression" /\ match(r.m, "**")
        THEN LET p1 == SetCover(Call("nextToken", <<r.m>>).m, FALSE, FALSE)
                 right == isolateCoverGrammar(p1, Call("parseExponentiationExpression", <<CoverGrammar(p1)>>))
             IN  IF right.m.stopped THEN Ret(right.m, UndefinedNode)
                 ELSE Ret(right.m, NodeBinaryExpression("**", r.node, right.node))
        ELSE r

\* Parser.operatorPrecedence, set by the constructor
operatorPrecedence ==
    (")" :> 0) @@ (";" :> 0) @@ ("," :> 0) @@ ("=" :> 0) @@ ("]" :> 0) @@
    ("||" :> 1) @@ ("&&" :> 2) @@ ("|" :> 3) @@ ("^" :> 4) @@ ("&" :> 5) @@
    ("==" :> 6) @@ ("!=" :> 6) @@ ("===" :> 6) @@ ("!==" :> 6) @@
    ("<" :> 7) @@ (">" :> 7) @@ ("<=" :> 7) @@ (">=" :> 7) @@
    ("<<" :> 8) @@ (">>" :> 8) @@ (">>>" :> 8) @@
    ("+" :> 9) @@ ("-" :> 9) @@ ("*" :> 11) @@ ("/" :> 11) @@ ("%" :> 11)

\* Parser.binaryPrecedence
binaryPrecedence(token) ==
    IF token.type = "Punctuator" /\ token.value \in DOMAIN operatorPrecedence
    THEN operatorPrecedence[token.value]
    ELSE 0

\* Reduce: make a binary expression from the three topmost entries, while the stack holds
\* more than two entries and prec is at most the precedence on top: [stack, precedences]
RECURSIVE Reduce_StrictlyLess(_, _, _)
Reduce_StrictlyLess(stack, precedences, prec) ==
    IF Len(stack) > 2 /\ prec < Last(precedences)
    THEN LET n == Len(stack)
             node == NodeBinaryExpression(stack[n - 1], stack[n - 2], stack[n])
         IN  Reduce_StrictlyLess(Append(SubSeq(stack, 1, n - 3), node), Front(precedences), prec)
    ELSE [stack |-> stack, precedences |-> precedences]

RECURSIVE Reduce(_, _, _)
Reduce(stack, precedences, prec) ==
    IF Len(stack) > 2 /\ prec <= Last(precedences)
    THEN LET n == Len(stack)
             node == NodeBinaryExpression(stack[n - 1], stack[n - 2], stack[n])
         IN  Reduce(Append(SubSeq(stack, 1, n - 3), node), Front(precedences), prec)
    ELSE [stack |-> stack, precedences |-> precedences]

\* the shift-reduce loop of parseBinaryExpression: [m, node], node the stack
RECURSIVE BinaryLoop(_, _, _)
BinaryLoop(p, stack, precedences) ==
    IF p.stopped THEN Ret(p, stack)
    ELSE LET prec == binaryPrecedence(p.lookahead)
         IN  IF prec <= 0 THEN Ret(p, stack)
             ELSE LET reduced == Reduce(stack, precedences, prec)
                      t == Call("nextToken", <<p>>)
                      r == isolateCoverGrammar(t.m,
                               Call("parseExponentiationExpression", <<CoverGrammar(t.m)>>))
                  IN  IF t.m.stopped THEN Ret(t.m, stack)
                      ELSE IF r.m.stopped THEN Ret(r.m, stack)
                      ELSE BinaryLoop(r.m,
                                      reduced.stack \o <<t.tok.value, r.node>>,
                                      Append(reduced.precedences, prec))

\* Final reduce to clean-up the stack; i is the 0-based index of the code
RECURSIVE FinalReduce(_, _, _)
FinalReduce(stack, i, expr) ==
    IF i > 1
    THEN FinalReduce(stack, i - 2, NodeBinaryExpression(stack[i], stack[i - 1], expr))
    ELSE expr

\* Parser.parseBinaryExpression; the markers give positions to finalize only
parseBinaryExpression(p) ==
    LET c == Call("parseExponentiationExpression", <<CoverGrammar(p)>>)
        r == inheritCoverGrammar(p, c)
    IN  IF c.m.stopped THEN Ret(c.m, UndefinedNode)
        ELSE LET token == r.m.lookahead
                 prec == binaryPrecedence(token)
             IN  IF prec > 0
                 THEN LET p1 == SetCover(Call("nextToken", <<r.m>>).m, FALSE, FALSE)
                          right == isolateCoverGrammar(p1,
                                       Call("parseExponentiationExpression", <<CoverGrammar(p1)>>))
                          l == BinaryLoop(right.m, <<r.node, token.value, right.node>>, <<prec>>)
                      IN  IF p1.stopped THEN Ret(p1, UndefinedNode)
                          ELSE IF right.m.stopped THEN Ret(right.m, UndefinedNode)
                          ELSE IF l.m.stopped THEN Ret(l.m, UndefinedNode)
                          ELSE Ret(l.m, FinalReduce(l.node, Len(l.node) - 1, Last(l.node)))
                 ELSE r

\* Parser.parseConditionalExpression
parseConditionalExpression(p) ==
    LET c == Call("parseBinaryExpression", <<CoverGrammar(p)>>)
        r == inheritCoverGrammar(p, c)
    IN  IF c.m.stopped THEN Ret(c.m, UndefinedNode)
        ELSE IF match(r.m, "?")
        THEN LET consequentAt == Call("nextToken", <<r.m>>).m
                 c1 == Call("parseAssignmentExpression", <<CoverGrammar(consequentAt)>>)
                 consequent == isolateCoverGrammar(consequentAt, c1)
                 alternateAt == Call("expect", <<consequent.m, ":">>)
                 c2 == Call("parseAssignmentExpression", <<CoverGrammar(alternateAt)>>)
                 alternate == isolateCoverGrammar(alternateAt, c2)
             IN  IF consequentAt.stopped THEN Ret(consequentAt, UndefinedNode)
                 ELSE IF c1.m.stopped THEN Ret(c1.m, UndefinedNode)
                 ELSE IF alternateAt.stopped THEN Ret(alternateAt, UndefinedNode)
                 ELSE IF c2.m.stopped THEN Ret(c2.m, UndefinedNode)
                 ELSE IF alternate.m.stopped THEN Ret(alternate.m, UndefinedNode)
                 ELSE Ret(SetCover(alternate.m, FALSE, FALSE),
                          NodeConditionalExpression(r.node, consequent.node, alternate.node))
        ELSE r

\* Parser.parseAssignmentExpression
parseAssignmentExpression(p) ==
    LET r == Call("parseConditionalExpression", <<p>>)
        q == r.m
    IN  IF q.stopped THEN Ret(q, UndefinedNode)
        ELSE IF matchAssign(q)
        THEN LET p1 == IF ~q.context.isAssignmentTarget
                       THEN Call("ParserTolerateError", <<q, Messages.InvalidLHSInAssignment, <<>>>>)
                       ELSE q
                 p2 == IF ~match(q, "=") THEN SetCover(p1, FALSE, FALSE) ELSE p1
                 t == Call("nextToken", <<p2>>)
                 right == isolateCoverGrammar(t.m, Call("parseAssignmentExpression", <<CoverGrammar(t.m)>>))
             IN  IF right.m.stopped THEN Ret(right.m, UndefinedNode)
                 ELSE Ret([right.m EXCEPT !.context.firstCoverInitializedNameError = Null],
                          NodeAssignmentExpression(t.tok.value, r.node, right.node))
        ELSE r

\* Parser.parseExpression
parseExpression(p) ==
    LET r == isolateCoverGrammar(p, Call("parseAssignmentExpression", <<CoverGrammar(p)>>))
    IN  IF r.m.stopped THEN Ret(r.m, UndefinedNode)
        ELSE IF match(r.m, ",")
        THEN LET l == CommaLoop(r.m, <<r.node>>, FALSE)
             IN  IF l.m.stopped THEN Ret(l.m, UndefinedNode)
                 ELSE Ret(l.m, NodeSequenceExpression(l.node))
        ELSE r

-----------------------------------------------------------------------------
(* Parser: statements *)

\* Parser.parseVariableIdentifier(kind); kind "" is a kind not given
parseVariableIdentifier(p, kind) ==
    LET r == Call("nextToken", <<p>>)
        p1 == IF ~r.m.stopped /\ r.tok.type # "Identifier"
                 /\ (r.tok.value # "let" \/ kind # "var")
              THEN throwUnexpectedToken(r.m, r.tok, "")
              ELSE r.m
    IN  IF p1.stopped THEN Ret(p1, UndefinedNode) ELSE Ret(p1, NodeIdentifier(r.tok.value))

\* Parser.parsePattern(params, kind); params is read by no caller of this model
parsePattern(p, kind) ==
    IF p.stopped THEN Ret(p, UndefinedNode)
    ELSE LET p1 == IF matchKeyword(p, "let") /\ kind \in {"const", "let"}
                   THEN tolerateUnexpectedToken(p, p.lookahead, Messages.LetInLexicalBinding)
                   ELSE p
         IN  Call("parseVariableIdentifier", <<p1, kind>>)

\* Parser.parseLexicalBinding(kind, options)
parseLexicalBinding(p, kind, inFor) ==
    LET id == Call("parsePattern", <<p, kind>>)
        q == id.m
    IN  IF q.stopped THEN Ret(q, UndefinedNode)
        ELSE IF kind = "const"
        THEN IF match(q, "=")
             THEN LET initAt == Call("nextToken", <<q>>).m
                      init == isolateCoverGrammar(initAt,
                                                  Call("parseAssignmentExpression", <<CoverGrammar(initAt)>>))
                  IN  IF init.m.stopped THEN Ret(init.m, UndefinedNode)
                      ELSE Ret(init.m, NodeVariableDeclarator(id.node, init.node))
             ELSE Ret(Call("ParserThrowError", <<q, Messages.DeclarationMissingInitializer, <<"const">>>>),
                      UndefinedNode)
        ELSE IF (~inFor /\ id.node.type # "Identifier") \/ match(q, "=")
        THEN LET initAt == Call("expect", <<q, "=">>)
                 init == isolateCoverGrammar(initAt,
                                             Call("parseAssignmentExpression", <<CoverGrammar(initAt)>>))
             IN  IF init.m.stopped THEN Ret(init.m, UndefinedNode)
                 ELSE Ret(init.m, NodeVariableDeclarator(id.node, init.node))
        ELSE Ret(q, NodeVariableDeclarator(id.node, Null))

\* the loop of parseBindingList
RECURSIVE BindingListLoop(_, _, _, _)
BindingListLoop(p, list, kind, inFor) ==
    IF p.stopped \/ ~match(p, ",") THEN Ret(p, list)
    ELSE LET r == Call("parseLexicalBinding", <<Call("nextToken", <<p>>).m, kind, inFor>>)
         IN  BindingListLoop(r.m, Append(list, r.node), kind, inFor)

\* Parser.parseBindingList(kind, options): [m, node], node the list
parseBindingList(p, kind, inFor) ==
    LET r == Call("parseLexicalBinding", <<p, kind, inFor>>)
    IN  BindingListLoop(r.m, <<r.node>>, kind, inFor)

isLexicalDeclaration_RecordsToken(p) ==
    LET state == saveState(p)
        r == Call("lex", <<Call("scanComments", <<p>>).m>>)
        next == r.tok
        q == restoreState(r.m, state)
    IN  IF r.m.stopped THEN Ret(r.m, FALSE)
        ELSE Ret(IF q.tokensOn /\ next.type # "EOF"
                 THEN [q EXCEPT !.tokens = Append(@, convertToken(next))]
                 ELSE q,
                 \/ next.type = "Identifier"
                 \/ (next.type = "Punctuator" /\ next.value = "[")
                 \/ (next.type = "Punctuator" /\ next.value = "{")
                 \/ (next.type = "Keyword" /\ next.value = "let")
                 \/ (next.type = "Keyword" /\ next.value = "yield"))

\* Parser.isLexicalDeclaration: [m, node], node the boolean it returns
isLexicalDeclaration(p) ==
    LET state == saveState(p)
        r == Call("lex", <<Call("scanComments", <<p>>).m>>)
        next == r.tok
    IN  IF r.m.stopped THEN Ret(r.m, FALSE)
        ELSE Ret(restoreState(r.m, state),
                 \/ next.type = "Identifier"
                 \/ (next.type = "Punctuator" /\ next.value = "[")
                 \/ (next.type = "Punctuator" /\ next.value = "{")
                 \/ (next.type = "Keyword" /\ next.value = "let")
                 \/ (next.type = "Keyword" /\ next.value = "yield"))

\* Parser.parseLexicalDeclaration(options)
parseLexicalDeclaration(p, inFor) ==
    LET t == Call("nextToken", <<p>>)
        l == parseBindingList(t.m, t.tok.value, inFor)
        p1 == Call("consumeSemicolon", <<l.m>>)
    IN  IF t.m.stopped THEN Ret(t.m, UndefinedNode)
        ELSE IF p1.stopped THEN Ret(p1, UndefinedNode)
        ELSE Ret(p1, NodeVariableDeclaration(l.node, t.tok.value))

\* Parser.parseVariableDeclaration(options)
parseVariableDeclaration(p, inFor) ==
    LET id == Call("parsePattern", <<p, "var">>)
        q == id.m
    IN  IF q.stopped THEN Ret(q, UndefinedNode)
        ELSE IF match(q, "=")
        THEN LET initAt == Call("nextToken", <<q>>).m
                 init == isolateCoverGrammar(initAt,
                                             Call("parseAssignmentExpression", <<CoverGrammar(initAt)>>))
             IN  IF init.m.stopped THEN Ret(init.m, UndefinedNode)
                 ELSE Ret(init.m, NodeVariableDeclarator(id.node, init.node))
        ELSE IF id.node.type # "Identifier" /\ ~inFor
        THEN LET p1 == Call("expect", <<q, "=">>)
             IN  IF p1.stopped THEN Ret(p1, UndefinedNode)
                 ELSE Ret(p1, NodeVariableDeclarator(id.node, Null))
        ELSE Ret(q, NodeVariableDeclarator(id.node, Null))

\* the loop of parseVariableDeclarationList
RECURSIVE VariableDeclarationListLoop(_, _, _)
VariableDeclarationListLoop(p, list, inFor) ==
    IF p.stopped \/ ~match(p, ",") THEN Ret(p, list)
    ELSE LET r == parseVariableDeclaration(Call("nextToken", <<p>>).m, inFor)
         IN  VariableDeclarationListLoop(r.m, Append(list, r.node), inFor)

\* Parser.parseVariableDeclarationList(options): [m, node], node the list
parseVariableDeclarationList(p, inFor) ==
    LET r == parseVariableDeclaration(p, inFor)
    IN  VariableDeclarationListLoop(r.m, <<r.node>>, inFor)

\* Parser.parseVariableStatement
parseVariableStatement(p) ==
    LET l == parseVariableDeclarationList(Call("expectKeyword", <<p, "var">>), FALSE)
        p1 == Call("consumeSemicolon", <<l.m>>)
    IN  IF p1.stopped THEN Ret(p1, UndefinedNode)
        ELSE Ret(p1, NodeVariableDeclaration(l.node, "var"))

\* the loop of parseBlock
RECURSIVE BlockLoop(_, _, _)
BlockLoop(p, block, seen) ==
    IF p.stopped \/ match(p, "}") THEN Ret(p, block)
    ELSE IF LoopHead(p) \in seen THEN Ret(Hang(p), block)
    ELSE IF LoopHead(p) \in p.frames THEN Ret(Throw(p, RangeError), block)
    ELSE LET r == Call("parseStatementListItem",
                       <<[p EXCEPT !.frames = @ \cup {LoopHead(p)}]>>)
         IN  IF r.m.stopped THEN Ret(r.m, Append(block, r.node))
             ELSE BlockLoop([r.m EXCEPT !.frames = p.frames], Append(block, r.node),
                            seen \cup {LoopHead(p)})

\* Parser.parseBlock
parseBlock(p) ==
    LET l == BlockLoop(Call("expect", <<p, "{">>), <<>>, {})
        p1 == IF l.m.stopped THEN l.m ELSE Call("expect", <<l.m, "}">>)
    IN  IF p1.stopped THEN Ret(p1, UndefinedNode) ELSE Ret(p1, NodeBlockStatement(l.node))

\* Parser.parseEmptyStatement
parseEmptyStatement(p) ==
    LET p1 == Call("expect", <<p, ";">>)
    IN  IF p1.stopped THEN Ret(p1, UndefinedNode) ELSE Ret(p1, NodeEmptyStatement)

\* Parser.parseExpressionStatement
parseExpressionStatement(p) ==
    LET expr == Call("parseExpression", <<p>>)
        p1 == Call("consumeSemicolon", <<expr.m>>)
    IN  IF expr.m.stopped THEN Ret(expr.m, UndefinedNode)
        ELSE IF p1.stopped THEN Ret(p1, UndefinedNode)
        ELSE Ret(p1, NodeExpressionStatement(expr.node))

\* Parser.parseIfClause
parseIfClause(p) == Call("parseStatement", <<p>>)

\* Parser.parseIfStatement
parseIfStatement(p) ==
    LET test == Call("parseExpression", <<Call("expect", <<Call("expectKeyword", <<p, "if">>), "(">>)>>)
        q == test.m
    IN  IF q.stopped THEN Ret(q, UndefinedNode)
        ELSE IF ~match(q, ")") /\ q.tolerant
        THEN LET t == Call("nextToken", <<q>>)
                 p1 == tolerateUnexpectedToken(t.m, t.tok, "")
             IN  IF p1.stopped THEN Ret(p1, UndefinedNode)
                 ELSE Ret(p1, NodeIfStatement(test.node, NodeEmptyStatement, Null))
        ELSE LET consequent == parseIfClause(Call("expect", <<q, ")">>))
                 alternate == IF ~consequent.m.stopped /\ matchKeyword(consequent.m, "else")
                              THEN parseIfClause(Call("nextToken", <<consequent.m>>).m)
                              ELSE Ret(consequent.m, Null)
             IN  IF alternate.m.stopped THEN Ret(alternate.m, UndefinedNode)
                 ELSE Ret(alternate.m,
                          NodeIfStatement(test.node, consequent.node, alternate.node))

parseDoWhileStatement_LeaveIteration(p) ==
    LET p1 == Call("expectKeyword", <<p, "do">>)
        stmt == Call("parseStatement", <<Then(p1, [p1 EXCEPT !.context.inIteration = TRUE])>>)
        test == Call("parseExpression",
                     <<Call("expect", <<Call("expectKeyword", <<stmt.m, "while">>), "(">>)>>)
        q == test.m
    IN  IF stmt.m.stopped THEN Ret(stmt.m, UndefinedNode)
        ELSE IF q.stopped THEN Ret(q, UndefinedNode)
        ELSE LET p4 == Call("expect", <<q, ")">>)
                 p3 == IF ~p4.stopped /\ match(p4, ";") THEN Call("nextToken", <<p4>>).m ELSE p4
             IN  IF p3.stopped THEN Ret(p3, UndefinedNode)
                 ELSE Ret(p3, NodeDoWhileStatement(stmt.node, test.node))

\* Parser.parseDoWhileStatement
parseDoWhileStatement(p) ==
    LET p1 == Call("expectKeyword", <<p, "do">>)
        previousInIteration == p1.context.inIteration
        stmt == Call("parseStatement", <<Then(p1, [p1 EXCEPT !.context.inIteration = TRUE])>>)
        p2 == Then(stmt.m, [stmt.m EXCEPT !.context.inIteration = previousInIteration])
        test == Call("parseExpression", <<Call("expect", <<Call("expectKeyword", <<p2, "while">>), "(">>)>>)
        q == test.m
    IN  IF stmt.m.stopped THEN Ret(stmt.m, UndefinedNode)
        ELSE IF q.stopped THEN Ret(q, UndefinedNode)
        ELSE LET p3 == IF ~match(q, ")") /\ q.tolerant
                       THEN LET t == Call("nextToken", <<q>>)
                            IN  tolerateUnexpectedToken(t.m, t.tok, "")
                       ELSE LET p4 == Call("expect", <<q, ")">>)
                            IN  IF ~p4.stopped /\ match(p4, ";") THEN Call("nextToken", <<p4>>).m ELSE p4
             IN  IF p3.stopped THEN Ret(p3, UndefinedNode)
                 ELSE Ret(p3, NodeDoWhileStatement(stmt.node, test.node))

parseWhileStatement_KeepToken(p) ==
    LET test == Call("parseExpression", <<Call("expect", <<Call("expectKeyword", <<p, "while">>), "(">>)>>)
        q == test.m
    IN  IF q.stopped THEN Ret(q, UndefinedNode)
        ELSE IF ~match(q, ")") /\ q.tolerant
        THEN LET p1 == tolerateUnexpectedToken(q, q.lookahead, "")
             IN  IF p1.stopped THEN Ret(p1, UndefinedNode)
                 ELSE Ret(p1, NodeWhileStatement(test.node, NodeEmptyStatement))
        ELSE LET p1 == Call("expect", <<q, ")">>)
                 previousInIteration == p1.context.inIteration
                 stmt == Call("parseStatement", <<Then(p1, [p1 EXCEPT !.context.inIteration = TRUE])>>)
             IN  IF stmt.m.stopped THEN Ret(stmt.m, UndefinedNode)
                 ELSE Ret([stmt.m EXCEPT !.context.inIteration = previousInIteration],
                          NodeWhileStatement(test.node, stmt.node))

\* Parser.parseWhileStatement
parseWhileStatement(p) ==
    LET test == Call("parseExpression", <<Call("expect", <<Call("expectKeyword", <<p, "while">>), "(">>)>>)
        q == test.m
    IN  IF q.stopped THEN Ret(q, UndefinedNode)
        ELSE IF ~match(q, ")") /\ q.tolerant
        THEN LET t == Call("nextToken", <<q>>)
                 p1 == tolerateUnexpectedToken(t.m, t.tok, "")
             IN  IF p1.stopped THEN Ret(p1, UndefinedNode)
                 ELSE Ret(p1, NodeWhileStatement(test.node, NodeEmptyStatement))
        ELSE LET p1 == Call("expect", <<q, ")">>)
                 previousInIteration == p1.context.inIteration
                 stmt == Call("parseStatement", <<Then(p1, [p1 EXCEPT !.context.inIteration = TRUE])>>)
             IN  IF stmt.m.stopped THEN Ret(stmt.m, UndefinedNode)
                 ELSE Ret([stmt.m EXCEPT !.context.inIteration = previousInIteration],
                          NodeWhileStatement(test.node, stmt.node))

\* the part of parseForStatement between the `(` and the test: [m, init, left], left
\* TRUE when the code has given `left` a value
ForInit(p) ==
    IF p.stopped THEN [m |-> p, init |-> Null, left |-> FALSE]
    ELSE IF match(p, ";") THEN [m |-> Call("nextToken", <<p>>).m, init |-> Null, left |-> FALSE]
    ELSE IF matchKeyword(p, "var")
    THEN LET l == parseVariableDeclarationList(Call("nextToken", <<p>>).m, TRUE)
             decl == NodeVariableDeclaration(l.node, "var")
         IN  IF l.m.stopped THEN [m |-> l.m, init |-> Null, left |-> FALSE]
             ELSE IF Len(l.node) = 1 /\ matchKeyword(l.m, "in")
             THEN [m |-> Call("parseExpression", <<Call("nextToken", <<l.m>>).m>>).m, init |-> Null, left |-> TRUE]
             ELSE [m |-> Call("expect", <<l.m, ";">>), init |-> decl, left |-> FALSE]
    ELSE IF matchKeyword(p, "const") \/ matchKeyword(p, "let")
    THEN LET t == Call("nextToken", <<p>>)
             l == parseBindingList(t.m, t.tok.value, TRUE)
         IN  [m |-> Call("consumeSemicolon", <<l.m>>),
              init |-> NodeVariableDeclaration(l.node, t.tok.value), left |-> FALSE]
    ELSE LET r == inheritCoverGrammar(p, Call("parseAssignmentExpression", <<CoverGrammar(p)>>))
             s == IF ~r.m.stopped /\ match(r.m, ",")
                  THEN LET l == CommaLoop(r.m, <<r.node>>, FALSE)
                       IN  Ret(l.m, NodeSequenceExpression(l.node))
                  ELSE r
         IN  [m |-> Call("expect", <<s.m, ";">>), init |-> s.node, left |-> FALSE]

\* Parser.parseForStatement
parseForStatement(p) ==
    LET i == Call("ForInit", <<Call("expect", <<Call("expectKeyword", <<p, "for">>), "(">>)>>)
        test == IF ~i.left /\ ~i.m.stopped /\ ~match(i.m, ";")
                THEN Call("parseExpression", <<i.m>>) ELSE Ret(i.m, Null)
        p1 == IF i.left THEN test.m ELSE Call("expect", <<test.m, ";">>)
        update == IF ~i.left /\ ~p1.stopped /\ ~match(p1, ")")
                  THEN Call("parseExpression", <<p1>>) ELSE Ret(p1, Null)
        q == update.m
    IN  IF q.stopped THEN Ret(q, UndefinedNode)
        ELSE LET stmt ==
                     IF ~match(q, ")") /\ q.tolerant
                     THEN LET t == Call("nextToken", <<q>>)
                          IN  Ret(tolerateUnexpectedToken(t.m, t.tok, ""), NodeEmptyStatement)
                     ELSE LET p2 == Call("expect", <<q, ")">>)
                              previousInIteration == p2.context.inIteration
                              rAt == Then(p2, [p2 EXCEPT !.context.inIteration = TRUE])
                              r == isolateCoverGrammar(rAt, Call("parseStatement", <<CoverGrammar(rAt)>>))
                          IN  Ret(Then(r.m, [r.m EXCEPT !.context.inIteration =
                                                             previousInIteration]),
                                  r.node)
             IN  IF stmt.m.stopped THEN Ret(stmt.m, UndefinedNode)
                 ELSE IF i.left
                 THEN Ret(Call("ParserThrowError", <<stmt.m, Messages.InvalidLHSInForLoop, <<>>>>),
                          UndefinedNode)
                 ELSE Ret(stmt.m, NodeForStatement(i.init, test.node, update.node, stmt.node))

\* the label of parseContinueStatement and parseBreakStatement: [m, node], node the
\* label or Null
ParseLabel(p) ==
    IF ~p.stopped /\ p.lookahead.type = "Identifier" /\ ~p.hasLineTerminator
    THEN LET id == Call("parseVariableIdentifier", <<p, "">>)
         IN  IF id.m.stopped THEN Ret(id.m, Null)
             ELSE IF id.node.name \notin id.m.context.labelSet
             THEN Ret(Call("ParserThrowError", <<id.m, Messages.UnknownLabel, <<id.node.name>>>>), id.node)
             ELSE id
    ELSE Ret(p, Null)

parseContinueStatement_TolerateUnknownLabel(p) ==
    LET p0 == Call("expectKeyword", <<p, "continue">>)
        label == IF ~p0.stopped /\ p0.lookahead.type = "Identifier" /\ ~p0.hasLineTerminator
                 THEN LET id == Call("parseVariableIdentifier", <<p0, "">>)
                      IN  IF id.m.stopped THEN Ret(id.m, Null)
                          ELSE IF id.node.name \notin id.m.context.labelSet
                          THEN Ret(Call("ParserTolerateError", <<id.m, Messages.UnknownLabel,
                                                       <<id.node.name>>>>), id.node)
                          ELSE id
                 ELSE Ret(p0, Null)
        p1 == Call("consumeSemicolon", <<label.m>>)
        p2 == IF ~p1.stopped /\ label.node = Null /\ ~p1.context.inIteration
              THEN Call("ParserThrowError", <<p1, Messages.IllegalContinue, <<>>>>)
              ELSE p1
    IN  IF p2.stopped THEN Ret(p2, UndefinedNode)
        ELSE Ret(p2, NodeContinueStatement(label.node))

\* Parser.parseContinueStatement
parseContinueStatement(p) ==
    LET label == ParseLabel(Call("expectKeyword", <<p, "continue">>))
        p1 == Call("consumeSemicolon", <<label.m>>)
        p2 == IF ~p1.stopped /\ label.node = Null /\ ~p1.context.inIteration
              THEN Call("ParserThrowError", <<p1, Messages.IllegalContinue, <<>>>>)
              ELSE p1
    IN  IF p2.stopped THEN Ret(p2, UndefinedNode)
        ELSE Ret(p2, NodeContinueStatement(label.node))

parseBreakStatement_AlwaysLegal(p) ==
    LET label == ParseLabel(Call("expectKeyword", <<p, "break">>))
        p1 == Call("consumeSemicolon", <<label.m>>)
    IN  IF p1.stopped THEN Ret(p1, UndefinedNode)
        ELSE Ret(p1, NodeBreakStatement(label.node))

\* Parser.parseBreakStatement
parseBreakStatement(p) ==
    LET label == ParseLabel(Call("expectKeyword", <<p, "break">>))
        p1 == Call("consumeSemicolon", <<label.m>>)
        p2 == IF ~p1.stopped /\ label.node = Null /\ ~p1.context.inIteration
              THEN Call("ParserThrowError", <<p1, Messages.IllegalBreak, <<>>>>)
              ELSE p1
    IN  IF p2.stopped THEN Ret(p2, UndefinedNode)
        ELSE Ret(p2, NodeBreakStatement(label.node))

parseReturnStatement_Fatal(p) ==
    LET p0 == IF ~p.stopped /\ ~p.context.inFunctionBody
              THEN Call("ParserThrowError", <<p, Messages.IllegalReturn, <<>>>>)
              ELSE p
        p1 == Call("expectKeyword", <<p0, "return">>)
        hasArgument == /\ ~p1.stopped
                       /\ ~match(p1, ";") /\ ~match(p1, "}")
                       /\ ~p1.hasLineTerminator /\ p1.lookahead.type # "EOF"
        argument == IF hasArgument THEN Call("parseExpression", <<p1>>) ELSE Ret(p1, Null)
        p2 == Call("consumeSemicolon", <<argument.m>>)
    IN  IF p2.stopped THEN Ret(p2, UndefinedNode)
        ELSE Ret(p2, NodeReturnStatement(argument.node))

\* Parser.parseReturnStatement
parseReturnStatement(p) ==
    LET p0 == IF ~p.stopped /\ ~p.context.inFunctionBody
              THEN Call("ParserTolerateError", <<p, Messages.IllegalReturn, <<>>>>)
              ELSE p
        p1 == Call("expectKeyword", <<p0, "return">>)
        hasArgument == /\ ~p1.stopped
                       /\ ~match(p1, ";") /\ ~match(p1, "}")
                       /\ ~p1.hasLineTerminator /\ p1.lookahead.type # "EOF"
        argument == IF hasArgument THEN Call("parseExpression", <<p1>>) ELSE Ret(p1, Null)
        p2 == Call("consumeSemicolon", <<argument.m>>)
    IN  IF p2.stopped THEN Ret(p2, UndefinedNode)
        ELSE Ret(p2, NodeReturnStatement(argument.node))

parseLabelledStatement_KeepLabel(p) ==
    LET expr == Call("parseExpression", <<p>>)
        q == expr.m
    IN  IF q.stopped THEN Ret(q, UndefinedNode)
        ELSE IF expr.node = UndefinedNode THEN Ret(Throw(q, TypeError), UndefinedNode)
        ELSE IF expr.node.type = "Identifier" /\ match(q, ":")
        THEN LET key == expr.node.name
                 p1 == Call("nextToken", <<q>>).m
                 p2 == IF ~p1.stopped /\ key \in p1.context.labelSet
                       THEN Call("ParserThrowError", <<p1, Messages.Redeclaration, <<"Label", key>>>>)
                       ELSE p1
                 p3 == Then(p2, [p2 EXCEPT !.context.labelSet = @ \cup {key}])
                 stmt == IF ~p3.stopped /\ matchKeyword(p3, "def")
                         THEN Call("parseFunctionDeclaration", <<p3>>)
                         ELSE Call("parseStatement", <<p3>>)
             IN  IF stmt.m.stopped THEN Ret(stmt.m, UndefinedNode)
                 ELSE Ret(stmt.m, NodeLabeledStatement(expr.node, stmt.node))
        ELSE LET p1 == Call("consumeSemicolon", <<q>>)
             IN  IF p1.stopped THEN Ret(p1, UndefinedNode)
                 ELSE Ret(p1, NodeExpressionStatement(expr.node))

\* Parser.parseLabelledStatement
parseLabelledStatement(p) ==
    LET expr == Call("parseExpression", <<p>>)
        q == expr.m
    IN  IF q.stopped THEN Ret(q, UndefinedNode)
        ELSE IF expr.node = UndefinedNode THEN Ret(Throw(q, TypeError), UndefinedNode)
        ELSE IF expr.node.type = "Identifier" /\ match(q, ":")
        THEN LET key == expr.node.name
                 p1 == Call("nextToken", <<q>>).m
                 p2 == IF ~p1.stopped /\ key \in p1.context.labelSet
                       THEN Call("ParserThrowError", <<p1, Messages.Redeclaration, <<"Label", key>>>>)
                       ELSE p1
                 p3 == Then(p2, [p2 EXCEPT !.context.labelSet = @ \cup {key}])
                 stmt == IF ~p3.stopped /\ matchKeyword(p3, "def")
                         THEN Call("parseFunctionDeclaration", <<p3>>)
                         ELSE Call("parseStatement", <<p3>>)
             IN  IF stmt.m.stopped THEN Ret(stmt.m, UndefinedNode)
                 ELSE Ret([stmt.m EXCEPT !.context.labelSet = @ \ {key}],
                          NodeLabeledStatement(expr.node, stmt.node))
        ELSE LET p1 == Call("consumeSemicolon", <<q>>)
             IN  IF p1.stopped THEN Ret(p1, UndefinedNode)
                 ELSE Ret(p1, NodeExpressionStatement(expr.node))

\* Parser.parseThrowStatement
parseThrowStatement(p) ==
    LET p1 == Call("expectKeyword", <<p, "throw">>)
        p2 == IF ~p1.stopped /\ p1.hasLineTerminator
              THEN Call("ParserThrowError", <<p1, Messages.NewlineAfterThrow, <<>>>>)
              ELSE p1
        argument == Call("parseExpression", <<p2>>)
        p3 == Call("consumeSemicolon", <<argument.m>>)
    IN  IF p3.stopped THEN Ret(p3, UndefinedNode)
        ELSE Ret(p3, NodeThrowStatement(argument.node))

\* Parser.parseDebuggerStatement
parseDebuggerStatement(p) ==
    LET p1 == Call("consumeSemicolon", <<Call("expectKeyword", <<p, "debugger">>)>>)
    IN  IF p1.stopped THEN Ret(p1, UndefinedNode) ELSE Ret(p1, NodeDebuggerStatement)

\* Parser.parseStatement
parseStatement(p) ==
    IF p.stopped THEN Ret(p, UndefinedNode)
    ELSE LET type == p.lookahead.type
             value == p.lookahead.value
         IN  IF type \in {"BooleanLiteral", "NullLiteral", "NumericLiteral", "StringLiteral",
                         "Punctuator"}
             THEN IF value = "{" THEN parseBlock(p)
                  ELSE IF value = "(" THEN parseExpressionStatement(p)
                  ELSE IF value = ";" THEN parseEmptyStatement(p)
                  ELSE parseExpressionStatement(p)
             ELSE IF type = "Identifier" THEN parseLabelledStatement(p)
             ELSE IF type = "Keyword"
             THEN CASE value = "break" -> parseBreakStatement(p)
                    [] value = "continue" -> parseContinueStatement(p)
                    [] value = "debugger" -> parseDebuggerStatement(p)
                    [] value = "do" -> parseDoWhileStatement(p)
                    [] value = "for" -> parseForStatement(p)
                    [] value = "def" -> Call("parseFunctionDeclaration", <<p>>)
                    [] value = "if" -> parseIfStatement(p)
                    [] value = "return" -> parseReturnStatement(p)
                    [] value = "throw" -> parseThrowStatement(p)
                    [] value = "var" -> parseVariableStatement(p)
                    [] value = "while" -> parseWhileStatement(p)
                    [] OTHER -> parseExpressionStatement(p)
             ELSE Ret(throwUnexpectedToken(p, p.lookahead, ""), UndefinedNode)

\* Parser.parseStatementListItem
parseStatementListItem(p) ==
    IF p.stopped THEN Ret(p, UndefinedNode)
    ELSE LET p1 == SetCover(p, TRUE, TRUE)
         IN  IF p1.lookahead.type = "Keyword"
             THEN CASE p1.lookahead.value = "const" -> parseLexicalDeclaration(p1, FALSE)
                    [] p1.lookahead.value = "def" -> Call("parseFunctionDeclaration", <<p1>>)
                    [] p1.lookahead.value = "let" ->
                          LET d == isLexicalDeclaration(p1)
                          IN  IF d.m.stopped THEN Ret(d.m, UndefinedNode)
                              ELSE IF d.node THEN parseLexicalDeclaration(d.m, FALSE)
                              ELSE Call("parseStatement", <<d.m>>)
                    [] OTHER -> Call("parseStatement", <<p1>>)
             ELSE Call("parseStatement", <<p1>>)

\* the loop of parseFunctionSourceElements
RECURSIVE SourceElementsLoop(_, _)
SourceElementsLoop(p, stmts) ==
    IF p.stopped \/ p.lookahead.type = "EOF" \/ match(p, "}") THEN Ret(p, stmts)
    ELSE LET r == Call("parseStatementListItem", <<p>>)
         IN  IF r.m.stopped THEN Ret(r.m, Append(stmts, r.node))
             ELSE SourceElementsLoop(r.m, Append(stmts, r.node))

parseFunctionSourceElements_KeepContext(p) ==
    LET p1 == Call("expect", <<p, "{">>)
        l == SourceElementsLoop(p1, <<>>)
        p3 == IF l.m.stopped THEN l.m ELSE Call("expect", <<l.m, "}">>)
    IN  IF p1.stopped THEN Ret(p1, UndefinedNode)
        ELSE IF p3.stopped THEN Ret(p3, UndefinedNode)
        ELSE Ret(p3, NodeBlockStatement(l.node))

\* Parser.parseFunctionSourceElements
parseFunctionSourceElements(p) ==
    LET p1 == Call("expect", <<p, "{">>)
        previous == p1.context
        p2 == Then(p1, [p1 EXCEPT !.context.labelSet = {},
                                  !.context.inIteration = FALSE,
                                  !.context.inFunctionBody = TRUE])
        l == SourceElementsLoop(p2, <<>>)
        p3 == IF l.m.stopped THEN l.m ELSE Call("expect", <<l.m, "}">>)
    IN  IF p1.stopped THEN Ret(p1, UndefinedNode)
        ELSE IF p3.stopped THEN Ret(p3, UndefinedNode)
        ELSE Ret([p3 EXCEPT !.context.labelSet = previous.labelSet,
                            !.context.inIteration = previous.inIteration,
                            !.context.inFunctionBody = previous.inFunctionBody],
                 NodeBlockStatement(l.node))

\* Parser.parsePatternWithDefault(params, kind) with no kind given
parsePatternWithDefault(p) ==
    LET pattern == Call("parsePattern", <<p, "">>)
    IN  IF ~pattern.m.stopped /\ match(pattern.m, "=")
        THEN LET rightAt == Call("nextToken", <<pattern.m>>).m
                 right == isolateCoverGrammar(rightAt,
                                              Call("parseAssignmentExpression", <<CoverGrammar(rightAt)>>))
             IN  IF right.m.stopped THEN Ret(right.m, UndefinedNode)
                 ELSE Ret(right.m, NodeAssignmentPattern(pattern.node, right.node))
        ELSE pattern

\* the loop of parseFormalParameters, parseFormalParameter being parsePatternWithDefault
\* and a push: [m, node], node the list options.params
RECURSIVE FormalParametersLoop(_, _)
FormalParametersLoop(p, params) ==
    IF p.stopped \/ p.lookahead.type = "EOF" THEN Ret(p, params)
    ELSE LET r == parsePatternWithDefault(p)
             params1 == Append(params, r.node)
         IN  IF r.m.stopped \/ match(r.m, ")") THEN Ret(r.m, params1)
             ELSE LET p1 == Call("expect", <<r.m, ",">>)
                  IN  IF p1.stopped \/ match(p1, ")") THEN Ret(p1, params1)
                      ELSE FormalParametersLoop(p1, params1)

\* Parser.parseFormalParameters: [m, node], node the list params
parseFormalParameters(p) ==
    LET p1 == Call("expect", <<p, "(">>)
        l == IF ~p1.stopped /\ ~match(p1, ")")
             THEN FormalParametersLoop(p1, <<>>) ELSE Ret(p1, <<>>)
    IN  IF l.m.stopped THEN l ELSE Ret(Call("expect", <<l.m, ")">>), l.node)

\* Parser.parseFunctionDeclaration() (identifierIsOptional is given by no caller)
parseFunctionDeclaration(p) ==
    IF p.stopped THEN Ret(p, UndefinedNode)
    ELSE LET isAsync == matchContextualKeyword(p, "async")
             p1 == Call("expectKeyword", <<IF isAsync THEN Call("nextToken", <<p>>).m ELSE p, "def">>)
             isGenerator == ~p1.stopped /\ ~isAsync /\ match(p1, "*")
             p2 == IF isGenerator THEN Call("nextToken", <<p1>>).m ELSE p1
             id == Call("parseVariableIdentifier", <<p2, "">>)
             params == Call("parseFormalParameters", <<id.m>>)
             stmt == parseFunctionSourceElements(params.m)
         IN  IF id.m.stopped THEN Ret(id.m, UndefinedNode)
             ELSE IF params.m.stopped THEN Ret(params.m, UndefinedNode)
             ELSE IF stmt.m.stopped THEN Ret(stmt.m, UndefinedNode)
             ELSE Ret(stmt.m,
                      NodeFunctionDeclaration(id.node, params.node, stmt.node, isGenerator))

\* Parser.parseFunctionExpression
parseFunctionExpression(p) ==
    IF p.stopped THEN Ret(p, UndefinedNode)
    ELSE LET isAsync == matchContextualKeyword(p, "async")
             p1 == Call("expectKeyword", <<IF isAsync THEN Call("nextToken", <<p>>).m ELSE p, "def">>)
             isGenerator == ~p1.stopped /\ ~isAsync /\ match(p1, "*")
             p2 == IF isGenerator THEN Call("nextToken", <<p1>>).m ELSE p1
             id == IF ~p2.stopped /\ ~match(p2, "(")
                   THEN Call("parseVariableIdentifier", <<p2, "">>) ELSE Ret(p2, Null)
             params == Call("parseFormalParameters", <<id.m>>)
             stmt == parseFunctionSourceElements(params.m)
         IN  IF id.m.stopped THEN Ret(id.m, UndefinedNode)
             ELSE IF params.m.stopped THEN Ret(params.m, UndefinedNode)
             ELSE IF stmt.m.stopped THEN Ret(stmt.m, UndefinedNode)
             ELSE Ret(stmt.m,
                      NodeFunctionExpression(id.node, params.node, stmt.node, isGenerator))

\* the loop of parseScript
RECURSIVE ScriptLoop(_, _, _)
ScriptLoop(p, stmts, seen) ==
    IF p.stopped \/ p.lookahead.type = "EOF" THEN Ret(p, stmts)
    ELSE IF LoopHead(p) \in seen THEN Ret(Hang(p), stmts)
    ELSE LET r == Call("parseStatementListItem", <<p>>)
         IN  IF r.m.stopped THEN Ret(r.m, Append(stmts, r.node))
             ELSE ScriptLoop(r.m, Append(stmts, r.node), seen \cup {LoopHead(p)})

\* Parser.parseScript
parseScript(p) ==
    LET l == ScriptLoop(p, <<>>, {})
    IN  IF l.m.stopped THEN Ret(l.m, UndefinedNode) ELSE Ret(l.m, NodeScript(l.node))

\* parse(code, options, delegate) for the code in source and no delegate: [m, node],
\* m the parser it made and node the ast it returns
parse(options) == parseScript(NewParser(options))

-----------------------------------------------------------------------------
(* The table of the methods: Call(f, a) is the method named f applied to   *)
(* the arguments a.                                                       *)

Call(f, a) ==
    CASE f = "scanComments" -> scanComments(a[1])
      [] f = "IdentifierEscape" -> IdentifierEscape(a[1], a[2])
      [] f = "getComplexIdentifier" -> getComplexIdentifier(a[1])
      [] f = "scanPunctuator" -> scanPunctuator(a[1])
      [] f = "DecimalDigitsLoop" -> DecimalDigitsLoop(a[1], a[2])
      [] f = "RadixDigitsLoop" -> RadixDigitsLoop(a[1], a[2], a[3])
      [] f = "NumericTail" -> NumericTail(a[1], a[2], a[3])
      [] f = "StringLoop" -> StringLoop(a[1], a[2], a[3])
      [] f = "lex" -> lex(a[1])
      [] f = "ParserThrowError" -> ParserThrowError(a[1], a[2], a[3])
      [] f = "ParserTolerateError" -> ParserTolerateError(a[1], a[2], a[3])
      [] f = "unexpectedTokenError" -> unexpectedTokenError(a[1], a[2], a[3])
      [] f = "nextToken" -> nextToken(a[1])
      [] f = "expect" -> expect(a[1], a[2])
      [] f = "expectKeyword" -> expectKeyword(a[1], a[2])
      [] f = "consumeSemicolon" -> consumeSemicolon(a[1])
      [] f = "parseGroupExpression" -> parseGroupExpression(a[1])
      [] f = "parsePrimaryExpression" -> parsePrimaryExpression(a[1])
      [] f = "CallLoop" -> CallLoop(a[1], a[2])
      [] f = "parseLeftHandSideExpressionAllowCall" -> parseLeftHandSideExpressionAllowCall(a[1])
      [] f = "parseUnaryExpression" -> parseUnaryExpression(a[1])
      [] f = "parseExponentiationExpression" -> parseExponentiationExpression(a[1])
      [] f = "parseBinaryExpression" -> parseBinaryExpression(a[1])
      [] f = "parseConditionalExpression" -> parseConditionalExpression(a[1])
      [] f = "parseAssignmentExpression" -> parseAssignmentExpression(a[1])
      [] f = "parseExpression" -> parseExpression(a[1])
      [] f = "parseVariableIdentifier" -> parseVariableIdentifier(a[1], a[2])
      [] f = "parsePattern" -> parsePattern(a[1], a[2])
      [] f = "parseLexicalBinding" -> parseLexicalBinding(a[1], a[2], a[3])
      [] f = "ForInit" -> ForInit(a[1])
      [] f = "parseStatement" -> parseStatement(a[1])
      [] f = "parseStatementListItem" -> parseStatementListItem(a[1])
      [] f = "parseFormalParameters" -> parseFormalParameters(a[1])
      [] f = "parseFunctionDeclaration" -> parseFunctionDeclaration(a[1])
      [] f = "parse" -> parse(a[1])
      [] f = "Speculate" -> Speculate(a[1])
      [] f = "NewParser" -> NewParser(a[1])
      [] f = "parseUpdateExpression" -> parseUpdateExpression(a[1])
      [] f = "isLexicalDeclaration" -> isLexicalDeclaration(a[1])

-----------------------------------------------------------------------------
(* The inputs of the parser specification.  A text is described by a path: *)
(* the constructs around one innermost statement, outermost first, then    *)
(* the innermost statement.  "thenExpr" is a statement list `s a;` and     *)
(* "afterDef" a statement list `def f(){} s`; they stand where a list of   *)
(* statements stands: at the top, in a block and in a function body.       *)

Jumps == {"break", "continue", "breakA", "continueA", "return", "expr"}
Malformed == {"illegal", "hex", "exponent", "numberIdent", "escape", "string"}
\* the statements that start with a word of parseStatement's keyword switch and
\* enclose no statement
Worded == {"break", "continue", "return", "debugger", "if", "throw", "var"}
Enclosing == {"while", "do", "for", "label"}
Bodies == {"block", "def"}
Lists == {"thenExpr", "afterDef"}

RECURSIVE StmtPaths(_, _)
StmtPaths(innermost, d) ==
    {<<b>> : b \in innermost}
    \cup IF d = 0 THEN {}
         ELSE LET stmts == StmtPaths(innermost, d - 1)
                  lists == stmts \cup {<<l>> \o x : l \in Lists, x \in stmts}
              IN  {<<w>> \o x : w \in Enclosing, x \in stmts}
                  \cup {<<w>> \o x : w \in Bodies, x \in lists}

ListPaths(innermost, d) ==
    StmtPaths(innermost, d) \cup {<<l>> \o x : l \in Lists, x \in StmtPaths(innermost, d)}

\* the text in front of and behind what a construct encloses
Before(w) ==
    CASE w = "while" -> <<"w", "h", "i", "l", "e", "(", "a", ")">>
      [] w = "do" -> <<"d", "o", " ">>
      [] w = "for" -> <<"f", "o", "r", "(", ";", ";", ")">>
      [] w = "label" -> <<"a", ":">>
      [] w = "block" -> <<"{">>
      [] w = "def" -> <<"d", "e", "f", " ", "f", "(", ")", "{">>
      [] w = "afterDef" -> <<"d", "e", "f", " ", "f", "(", ")", "{", "}">>
      [] OTHER -> <<>>

After(w) ==
    CASE w = "do" -> <<"w", "h", "i", "l", "e", "(", "a", ")", ";">>
      [] w \in {"block", "def"} -> <<"}">>
      [] w = "thenExpr" -> <<"a", ";">>
      [] OTHER -> <<>>

InnermostText(b) ==
    CASE b = "break" -> <<"b", "r", "e", "a", "k", ";">>
      [] b = "continue" -> <<"c", "o", "n", "t", "i", "n", "u", "e", ";">>
      [] b = "breakA" -> <<"b", "r", "e", "a", "k", " ", "a", ";">>
      [] b = "continueA" -> <<"c", "o", "n", "t", "i", "n", "u", "e", " ", "a", ";">>
      [] b = "return" -> <<"r", "e", "t", "u", "r", "n", ";">>
      [] b = "expr" -> <<"a", ";">>
      [] b = "debugger" -> <<"d", "e", "b", "u", "g", "g", "e", "r", ";">>
      [] b = "if" -> <<"i", "f", "(", "a", ")", "a", ";">>
      [] b = "throw" -> <<"t", "h", "r", "o", "w", " ", "x", ";">>
      [] b = "var" -> <<"v", "a", "r", " ", "x", " ", "=", " ", "1", ";">>
      [] b = "illegal" -> <<"#", ";">>
      [] b = "hex" -> <<"0", "x", ";">>
      [] b = "exponent" -> <<"1", "e", ";">>
      [] b = "numberIdent" -> <<"1", "a", ";">>
      [] b = "escape" -> <<"\\", "u", ";">>
      [] OTHER -> <<"'", ";">>

RECURSIVE PathText(_)
PathText(path) ==
    IF Len(path) = 1 THEN InnermostText(path[1])
    ELSE Before(path[1]) \o PathText(Tail(path)) \o After(path[1])

-----------------------------------------------------------------------------
(* The parser specification: parse(code, options) on the text of a path,   *)
(* in either mode.  hist.path is the path the text was made from.          *)

ParseInit(paths) ==
    /\ hist \in [path : paths]
    /\ source = PathText(hist.path)
    /\ config \in [tolerant : BOOLEAN, comment : {FALSE}, tokens : {FALSE}]
    /\ scanner = NewScanner(source)
    /\ errors = <<>>
    /\ parser = Null
    /\ body = <<>>
    /\ status = "running"
    /\ thrown = NoError
    /\ last = [op |-> "new"]

Init == ParseInit(ListPaths(Jumps, MaxNest))

ParserOf(p) ==
    [lookahead |-> p.lookahead, hasLineTerminator |-> p.hasLineTerminator,
     context |-> p.context, lastMarker |-> p.lastMarker, startMarker |-> p.startMarker,
     tokens |-> p.tokens]

\* a call of parse(code, options): body is the body of the Script it returns; ast.errors,
\* which parse sets in tolerant mode, is the variable errors
ParseCall ==
    /\ status = "running"
    /\ \E r \in {Call("parse", <<config>>)} :
           /\ scanner' = ScannerOf(r.m)
           /\ errors' = r.m.errors
           /\ parser' = ParserOf(r.m)
           /\ status' = StatusOf(r.m, "returned")
           /\ thrown' = r.m.exc
           /\ body' = IF r.m.stopped THEN <<>> ELSE r.node.body
           /\ last' = [op |-> "parse"]
    /\ UNCHANGED <<source, config, hist>>

Next == ParseCall

Spec == Init /\ [][Next]_vars

\* the same calls on texts whose innermost statement is one the scanner cannot scan
InitMalformed == ParseInit(ListPaths(Malformed, MaxNest - 1))

SpecMalformed == InitMalformed /\ [][Next]_vars

-----------------------------------------------------------------------------
(* What the specification says of the text of a path, worked out on the    *)
(* path and not by the parser: the statements of the Script, the           *)
(* descriptions of the errors recorded and the description of the error    *)
(* raised ("" when parsing returns).  ctx is [inIteration, inFunctionBody, *)
(* labelSet] at the statement.                                             *)

IdentifierA == NodeIdentifier("a")
ExpressionA == NodeExpressionStatement(IdentifierA)
EmptyFunction ==
    NodeFunctionDeclaration(NodeIdentifier("f"), <<>>, NodeBlockStatement(<<>>), FALSE)

TopContext == [inIteration |-> FALSE, inFunctionBody |-> FALSE, labelSet |-> {}]

Raised(description) == [raise |-> description, errs |-> <<>>, node |-> UndefinedNode]
Parsed(node) == [raise |-> "", errs |-> <<>>, node |-> node]

ExpectedInnermost(b, ctx, tolerant) ==
    CASE b = "break" ->
            IF ctx.inIteration THEN Parsed(NodeBreakStatement(Null))
            ELSE Raised(Messages.IllegalBreak)
      [] b = "continue" ->
            IF ctx.inIteration THEN Parsed(NodeContinueStatement(Null))
            ELSE Raised(Messages.IllegalContinue)
      [] b = "breakA" ->
            IF "a" \in ctx.labelSet THEN Parsed(NodeBreakStatement(IdentifierA))
            ELSE Raised("Undefined label 'a'")
      [] b = "continueA" ->
            IF "a" \in ctx.labelSet THEN Parsed(NodeContinueStatement(IdentifierA))
            ELSE Raised("Undefined label 'a'")
      [] b = "return" ->
            IF ctx.inFunctionBody THEN Parsed(NodeReturnStatement(Null))
            ELSE IF tolerant
            THEN [raise |-> "", errs |-> <<Messages.IllegalReturn>>,
                  node |-> NodeReturnStatement(Null)]
            ELSE Raised(Messages.IllegalReturn)
      [] b = "expr" -> Parsed(ExpressionA)
      [] b = "debugger" -> Parsed(NodeDebuggerStatement)
      [] b = "if" -> Parsed(NodeIfStatement(IdentifierA, ExpressionA, Null))
      [] b = "throw" -> Parsed(NodeThrowStatement(NodeIdentifier("x")))
      [] b = "var" ->
            Parsed(NodeVariableDeclaration(
                       <<NodeVariableDeclarator(NodeIdentifier("x"),
                                                NodeLiteral(NumberValue(Num(1)), "1"))>>,
                       "var"))
      [] OTHER -> Raised(Messages.UnexpectedTokenIllegal)

RECURSIVE ExpectedStmt(_, _, _)
ExpectedStmt(path, ctx, tolerant) ==
    LET w == Head(path)
        WithNode(r, node) == IF r.raise # "" THEN r ELSE [r EXCEPT !.node = node]
    IN  IF Len(path) = 1 THEN ExpectedInnermost(w, ctx, tolerant)
        ELSE IF w \in {"while", "do", "for"}
        THEN LET r == ExpectedStmt(Tail(path), [ctx EXCEPT !.inIteration = TRUE], tolerant)
             IN  WithNode(r, CASE w = "while" -> NodeWhileStatement(IdentifierA, r.node)
                               [] w = "do" -> NodeDoWhileStatement(r.node, IdentifierA)
                               [] OTHER -> NodeForStatement(Null, Null, Null, r.node))
        ELSE IF w = "label"
        THEN IF "a" \in ctx.labelSet THEN Raised("Label 'a' has already been declared")
             ELSE LET r == ExpectedStmt(Tail(path), [ctx EXCEPT !.labelSet = @ \cup {"a"}],
                                        tolerant)
                  IN  WithNode(r, NodeLabeledStatement(IdentifierA, r.node))
        ELSE LET inner == IF w = "def"
                          THEN [inIteration |-> FALSE, inFunctionBody |-> TRUE, labelSet |-> {}]
                          ELSE ctx
                 rest == Tail(path)
                 r == IF Head(rest) \in Lists THEN ExpectedStmt(Tail(rest), inner, tolerant)
                      ELSE ExpectedStmt(rest, inner, tolerant)
                 stmts == CASE Head(rest) = "thenExpr" -> <<r.node, ExpressionA>>
                            [] Head(rest) = "afterDef" -> <<EmptyFunction, r.node>>
                            [] OTHER -> <<r.node>>
             IN  WithNode(r, IF w = "def"
                             THEN NodeFunctionDeclaration(NodeIdentifier("f"), <<>>,
                                                          NodeBlockStatement(stmts), FALSE)
                             ELSE NodeBlockStatement(stmts))

\* [raise, errs, node], node the list of the statements of the Script
Expected(path, tolerant) ==
    LET r == IF Head(path) \in Lists THEN ExpectedStmt(Tail(path), TopContext, tolerant)
             ELSE ExpectedStmt(path, TopContext, tolerant)
    IN  IF r.raise # "" THEN r
        ELSE [r EXCEPT !.node = CASE Head(path) = "thenExpr" -> <<r.node, ExpressionA>>
                                  [] Head(path) = "afterDef" -> <<EmptyFunction, r.node>>
                                  [] OTHER -> <<r.node>>]

DescriptionsOf(errs) == [i \in 1..Len(errs) |-> errs[i].description]

\* parse did what is expected of it
Agrees(exp) ==
    IF exp.raise # ""
    THEN /\ status = "raised" /\ thrown.name = "Error" /\ thrown.description = exp.raise
         /\ body = <<>>
    ELSE /\ status = "returned" /\ thrown = NoError
         /\ body = exp.node
         /\ DescriptionsOf(errors) = exp.errs

AfterParse == last.op = "parse"
Path == hist.path
Has(path, w) == \E i \in 1..Len(path) : path[i] = w

\* the place of the innermost def of a path (0 if none): what stands in front of it does
\* not reach the innermost statement's context
LastDef(path) ==
    IF Has(path, "def") THEN CHOOSE i \in 1..Len(path) :
                                 path[i] = "def" /\ \A j \in (i + 1)..Len(path) : path[j] # "def"
    ELSE 0
InLoop(path) == \E i \in (LastDef(path) + 1)..Len(path) : path[i] \in {"while", "do", "for"}
InFunction(path) == LastDef(path) > 0
LabelDeclared(path) == \E i \in (LastDef(path) + 1)..Len(path) : path[i] = "label"

\* the path with a plain expression statement in place of its innermost statement
Plain(path) == Front(path) \o <<"expr">>
OtherwiseValid(path) ==
    LET e == Expected(Plain(path), config.tolerant) IN e.raise = "" /\ e.errs = <<>>

-----------------------------------------------------------------------------
(* Claims about the parser's context discipline, under Spec.               *)

C2_Case ==
    /\ AfterParse /\ Last(Path) = "continueA"
    /\ ~LabelDeclared(Path) /\ OtherwiseValid(Path)

C3_UnlabeledJump ==
    (AfterParse /\ Last(Path) \in {"break", "continue"} /\ OtherwiseValid(Path)) =>
        IF InLoop(Path)
        THEN /\ status = "returned"
             /\ errors = <<>>
             /\ body = Expected(Path, config.tolerant).node
             /\ ExpectedInnermost(Last(Path), [TopContext EXCEPT !.inIteration = TRUE],
                                  config.tolerant).node.label = Null
        ELSE /\ status = "raised"
             /\ thrown.description = IF Last(Path) = "break" THEN Messages.IllegalBreak
                                     ELSE Messages.IllegalContinue
             /\ body = <<>>

C3_Witness ==
    /\ AfterParse /\ Path = <<"while", "break">>
    /\ status = "returned" /\ errors = <<>>
    /\ body = <<NodeWhileStatement(IdentifierA, NodeBreakStatement(Null))>>

\* C4: a return parsed while inFunctionBody is false is a tolerated error: in tolerant
\* mode exactly one IllegalReturn error is recorded, the ReturnStatement is produced and
\* the following statements are parsed; in strict mode the parse raises.  A return inside
\* a function body records no error in either mode.
C4_Return ==
    (AfterParse /\ Last(Path) = "return" /\ OtherwiseValid(Path)) =>
        IF InFunction(Path)
        THEN /\ status = "returned" /\ errors = <<>>
             /\ body = Expected(Path, config.tolerant).node
        ELSE IF config.tolerant
        THEN /\ status = "returned"
             /\ DescriptionsOf(errors) = <<Messages.IllegalReturn>>
             /\ body = Expected(Path, TRUE).node
        ELSE /\ status = "raised" /\ thrown.description = Messages.IllegalReturn
             /\ body = <<>>

C4_Witness ==
    /\ AfterParse /\ config.tolerant /\ Path = <<"thenExpr", "return">>
    /\ status = "returned"
    /\ DescriptionsOf(errors) = <<Messages.IllegalReturn>>
    /\ body = <<NodeReturnStatement(Null), ExpressionA>>

\* C8: entering a function body sets labelSet to empty, inIteration to false and
\* inFunctionBody to true, and leaving it restores the three: an unlabeled break or
\* continue directly inside a function nested in a loop is illegal, a label declared
\* outside the function is unknown inside it, and after the function body a break in
\* the enclosing loop body is legal again.
C8_FunctionContext ==
    (AfterParse /\ (Has(Path, "def") \/ Has(Path, "afterDef"))) =>
        /\ Agrees(Expected(Path, config.tolerant))
        /\ status = "returned" =>
              /\ parser.context.labelSet = {}
              /\ ~parser.context.inIteration
              /\ ~parser.context.inFunctionBody
        /\ (Last(Path) \in {"break", "continue"} /\ Path[Len(Path) - 1] = "def") =>
              status = "raised"
        /\ (Last(Path) \in {"breakA", "continueA"} /\ ~LabelDeclared(Path)) =>
              status = "raised"
        /\ Path = <<"while", "block", "afterDef", "break">> => status = "returned"

C8_Witness ==
    /\ AfterParse /\ Path = <<"while", "block", "afterDef", "break">>
    /\ status = "returned" /\ errors = <<>>
    /\ body = <<NodeWhileStatement(IdentifierA,
                                   NodeBlockStatement(<<EmptyFunction,
                                                        NodeBreakStatement(Null)>>))>>

-----------------------------------------------------------------------------
(* The statement specification: parse on the texts whose innermost         *)
(* statement starts with a word of parseStatement's keyword switch, alone, *)
(* in a list, and inside one loop, label, block or function body.          *)

MaxWordNest == 1

InitStatements == ParseInit(ListPaths(Worded, MaxWordNest))

SpecStatements == InitStatements /\ [][Next]_vars

\* C13: a statement that starts with break, continue, debugger, do, for, def, if,
\* return, throw, var or while is parsed by the production of that word and yields
\* the node of that production: where the context allows the statement, the Script
\* holds a BreakStatement, ContinueStatement, DebuggerStatement, DoWhileStatement,
\* ForStatement, FunctionDeclaration, IfStatement, ReturnStatement, ThrowStatement,
\* VariableDeclaration of kind var or WhileStatement at the statement's place.
C13_KeywordDispatch ==
    (AfterParse /\ Expected(Path, config.tolerant).raise = "") =>
        /\ status = "returned"
        /\ body = Expected(Path, config.tolerant).node

-----------------------------------------------------------------------------
(* The lines specification: parse, in either mode, on the texts made of at *)
(* most MaxLineFrags of a few words, punctuators, spaces and line          *)
(* terminators, most of them ill-formed.                                   *)

MaxLineFrags == 4

LineFrags == {
    <<"a">>, <<" ">>, <<"\n">>, <<";">>, <<")">>,
    <<"r", "e", "t", "u", "r", "n">>,
    <<"w", "h", "i", "l", "e", "(", "a", ")">> }

InitLines ==
    /\ source \in Texts(LineFrags, MaxLineFrags)
    /\ hist = [path |-> <<>>]
    /\ config \in [tolerant : BOOLEAN, comment : {FALSE}, tokens : {FALSE}]
    /\ scanner = NewScanner(source)
    /\ errors = <<>>
    /\ parser = Null
    /\ body = <<>>
    /\ status = "running"
    /\ thrown = NoError
    /\ last = [op |-> "new"]

SpecLines == InitLines /\ [][Next]_vars

\* the offset at which the line that contains offset i starts
LineStartOf(i) ==
    CHOOSE j \in 0..i :
        /\ j = 0 \/ IsLineTerminator(CharAt(j - 1))
        /\ \A k \in (j + 1)..i : ~IsLineTerminator(CharAt(k - 1))

\* the number of the line that contains offset i
LineOf(i) == 1 + Cardinality({j \in 0..(i - 1) : IsLineTerminator(CharAt(j))})

\* the errors recorded and the error raised
Diagnostics ==
    {errors[i] : i \in 1..Len(errors)} \cup (IF thrown = NoError THEN {} ELSE {thrown})

\* C14: every diagnostic of the Parser names one position of the text: its
\* lineNumber is the number of the line that contains its index and its column is
\* the 1-based offset of its index in that line, also when the offending token
\* and the token consumed before it are on different lines.
C14_DiagnosticPosition ==
    AfterParse =>
        \A e \in Diagnostics :
            /\ e.lineNumber = LineOf(e.index)
            /\ e.column = e.index - LineStartOf(e.index) + 1

-----------------------------------------------------------------------------
(* The header specification: parse, in either mode, on the texts           *)
(*     pre header offending rest                                           *)
(* where header is an if, while or for header up to the place of its       *)
(* closing parenthesis, offending is the token that stands there instead   *)
(* ("" for the end of the text) and pre and rest are lists of expression   *)
(* statements.  hist says which.                                           *)

MaxRest == 2

Headers == {"if", "while", "forUpdate", "forNoUpdate"}
Offending == {"", ";", "b", "1"}

HeaderText(h) ==
    CASE h = "if" -> <<"i", "f", "(", "a">>
      [] h = "while" -> <<"w", "h", "i", "l", "e", "(", "a">>
      [] h = "forUpdate" -> <<"f", "o", "r", "(", ";", ";", "a">>
      [] OTHER -> <<"f", "o", "r", "(", ";", ";">>

OffendingText(t) == IF t = "" THEN <<>> ELSE <<" ", t, " ">>

RECURSIVE Statements(_)
Statements(n) == IF n = 0 THEN <<>> ELSE <<"a", ";">> \o Statements(n - 1)

InitHeaders ==
    /\ hist \in [path : {<<>>}, header : Headers, offending : Offending,
                 pre : 0..1, rest : 0..MaxRest]
    /\ hist.offending = "" => hist.rest = 0
    /\ source = Statements(hist.pre) \o HeaderText(hist.header)
                    \o OffendingText(hist.offending) \o Statements(hist.rest)
    /\ config \in [tolerant : BOOLEAN, comment : {FALSE}, tokens : {FALSE}]
    /\ scanner = NewScanner(source)
    /\ errors = <<>>
    /\ parser = Null
    /\ body = <<>>
    /\ status = "running"
    /\ thrown = NoError
    /\ last = [op |-> "new"]

SpecHeaders == InitHeaders /\ [][Next]_vars

\* the node of the statement of a header whose body is the substitute
Substituted(h) ==
    CASE h = "if" -> NodeIfStatement(IdentifierA, NodeEmptyStatement, Null)
      [] h = "while" -> NodeWhileStatement(IdentifierA, NodeEmptyStatement)
      [] h = "forUpdate" -> NodeForStatement(Null, Null, IdentifierA, NodeEmptyStatement)
      [] OTHER -> NodeForStatement(Null, Null, Null, NodeEmptyStatement)

\* the description of the unexpected-token error of a token
UnexpectedDescription(t) ==
    CASE t = "" -> Messages.UnexpectedEOS
      [] t = "b" -> Messages.UnexpectedIdentifier
      [] t = "1" -> Messages.UnexpectedNumber
      [] OTHER -> "Unexpected token " \o t

ExpressionStatements(n) == [i \in 1..n |-> ExpressionA]

\* the header's closing parenthesis is missing: in tolerant mode one unexpected-token
\* error is recorded, the offending token is consumed, the statement is returned
\* with an EmptyStatement for its body and the statements after it are parsed; in
\* strict mode the parse raises and there is no Script
MissingParenRecovered ==
    IF config.tolerant
    THEN /\ status = "returned"
         /\ DescriptionsOf(errors) = <<UnexpectedDescription(hist.offending)>>
         /\ body = ExpressionStatements(hist.pre) \o <<Substituted(hist.header)>>
                       \o ExpressionStatements(hist.rest)
    ELSE /\ status = "raised"
         /\ body = <<>>

\* C15, as stated: the recovery takes place for every if, while and for header
\* whose closing parenthesis is missing.
C15_EveryHeader == AfterParse => MissingParenRecovered

\* C15, amended: the recovery takes place when the token that stands in place of
\* the closing parenthesis follows the test of an if or while header or the update
\* expression of a for header; with no update expression the token is parsed as
\* the start of the update and the parse raises in both modes.
C15_AfterLastExpression ==
    AfterParse =>
        IF hist.header # "forNoUpdate" THEN MissingParenRecovered
        ELSE hist.offending \in {"", ";"} => (status = "raised" /\ errors = <<>>)

C15_Witness ==
    /\ AfterParse /\ config.tolerant
    /\ source = <<"w", "h", "i", "l", "e", "(", "a", " ", ";", " ", "a", ";">>
    /\ status = "returned"
    /\ DescriptionsOf(errors) = <<"Unexpected token ;">>
    /\ body = <<NodeWhileStatement(IdentifierA, NodeEmptyStatement), ExpressionA>>

-----------------------------------------------------------------------------
(* Lexer (src/lexer.ts) and Operator (src/language/operator.ts): the       *)
(* tokenizer of the calculator.  A string is a sequence of characters.     *)

\* Operator.OperatorKind.to(type): Null when the string is no operator
OperatorKindTo(type) ==
    CASE type = <<"+">> -> [type |-> "Addition"]
      [] type = <<"-">> -> [type |-> "Subtraction"]
      [] type = <<"*">> -> [type |-> "Multiplation"]
      [] type = <<"/">> -> [type |-> "Division"]
      [] OTHER -> Null

\* Operator.is(token)
OperatorIs(token) == OperatorKindTo(token) # Null

IsSpace(ch) == ch \in {" ", "\t", "\n"}

\* input.trim()
RECURSIVE Trim(_)
Trim(s) ==
    IF s = <<>> THEN s
    ELSE IF IsSpace(Head(s)) THEN Trim(Tail(s))
    ELSE IF IsSpace(Last(s)) THEN Trim(Front(s))
    ELSE s

\* s.split(/\s+/) for s = <<>> or an s that neither starts nor ends with white
\* space: the pieces between the runs of white space; "" gives [""]
RECURSIVE Split(_, _)
Split(s, piece) ==
    IF s = <<>> THEN <<piece>>
    ELSE IF ~IsSpace(Head(s)) THEN Split(Tail(s), Append(piece, Head(s)))
    ELSE IF IsSpace(Head(Tail(s))) THEN Split(Tail(s), piece)
    ELSE <<piece>> \o Split(Tail(s), <<>>)

\* isNaN(Number(candidate)) for a candidate without white space made of the
\* characters of LexerChars: Number gives a number for the empty string (0) and for
\* an optional sign followed by digits, digits with a fraction or a fraction
IsNaNNumber(candidate) ==
    LET unsigned == IF candidate # <<>> /\ Head(candidate) \in {"+", "-"}
                    THEN Tail(candidate) ELSE candidate
        n == Len(unsigned)
        AllDigits(a, b) == \A i \in a..b : IsDecimalDigit(unsigned[i])
        decimal == \/ n >= 1 /\ AllDigits(1, n)
                   \/ \E d \in 1..n : /\ unsigned[d] = "."
                                      /\ n >= 2
                                      /\ AllDigits(1, d - 1) /\ AllDigits(d + 1, n)
    IN  ~(candidate = <<>> \/ decimal)

\* the callback of the map of Lexer.tokenize
TokenOf(candidate) ==
    IF OperatorIs(candidate) THEN [Type |-> "Operator", Value |-> candidate]
    ELSE IF ~IsNaNNumber(candidate) THEN [Type |-> "Number", Value |-> candidate]
    ELSE [Type |-> "throw", Value |-> candidate]

\* Lexer.tokenize(input): [tokens, exc], exc the message of the Error of the first
\* candidate that is neither an operator nor a number, "" if there is none
tokenize(input) ==
    LET candidates == Split(Trim(input), <<>>)
        tokens == [i \in 1..Len(candidates) |-> TokenOf(candidates[i])]
        bad == {i \in 1..Len(tokens) : tokens[i].Type = "throw"}
    IN  IF bad = {} THEN [tokens |-> tokens, exc |-> ""]
        ELSE [tokens |-> <<>>,
              exc |-> "Unexpected token encountered: "
                         \o Join(candidates[CHOOSE i \in bad : \A j \in bad : i <= j])]

(* The lexer specification: tokenize on every input of at most MaxInput    *)
(* characters of LexerChars.                                               *)

MaxInput == 4

LexerChars == {"1", "2", "+", "/", ".", "a", " ", "\t"}

RECURSIVE Inputs(_)
Inputs(n) ==
    IF n = 0 THEN {<<>>}
    ELSE LET shorter == Inputs(n - 1)
         IN  shorter \cup {Append(t, c) : t \in shorter, c \in LexerChars}

InitLexer ==
    /\ source \in Inputs(MaxInput)
    /\ config = [tolerant |-> FALSE, comment |-> FALSE, tokens |-> FALSE]
    /\ scanner = Null
    /\ errors = <<>>
    /\ parser = Null
    /\ body = <<>>
    /\ status = "running"
    /\ thrown = NoError
    /\ last = [op |-> "new"]
    /\ hist = [path |-> <<>>]

\* a call of Lexer.tokenize(source)
TokenizeCall ==
    /\ status = "running"
    /\ \E r \in {tokenize(source)} :
           /\ status' = IF r.exc = "" THEN "returned" ELSE "raised"
           /\ thrown' = IF r.exc = "" THEN NoError ELSE [name |-> "Error", message |-> r.exc]
           /\ last' = [op |-> "tokenize", tokens |-> r.tokens]
    /\ UNCHANGED <<source, config, scanner, errors, parser, body, hist>>

SpecLexer == InitLexer /\ [][TokenizeCall]_vars

\* the non-empty words of a string, in order: its maximal runs of characters that
\* are not white space
RECURSIVE Words(_, _)
Words(s, word) ==
    IF s = <<>> THEN (IF word = <<>> THEN <<>> ELSE <<word>>)
    ELSE IF IsSpace(Head(s))
    THEN (IF word = <<>> THEN <<>> ELSE <<word>>) \o Words(Tail(s), <<>>)
    ELSE Words(Tail(s), Append(word, Head(s)))

IsOperatorWord(w) == w \in {<<"+">>, <<"-">>, <<"*">>, <<"/">>}

\* C16: tokenize returns one token per non-empty word of the input, in order, with
\* Value the word, Type Operator exactly when the word is + - * or / and Type Number
\* when it is no operator and converts to a number; a word that is neither raises
\* 'Unexpected token encountered'; the number of tokens is the number of non-empty
\* words, also for the empty input and the input of white space only.
C16_OneTokenPerWord ==
    last.op = "tokenize" =>
        LET words == Words(source, <<>>)
        IN  IF \A i \in 1..Len(words) : IsOperatorWord(words[i]) \/ ~IsNaNNumber(words[i])
            THEN /\ status = "returned"
                 /\ Len(last.tokens) = Len(words)
                 /\ \A i \in 1..Len(words) :
                        /\ last.tokens[i].Value = words[i]
                        /\ last.tokens[i].Type =
                               IF IsOperatorWord(words[i]) THEN "Operator" ELSE "Number"
            ELSE /\ status = "raised"
                 /\ \E w \in {words[i] : i \in 1..Len(words)} :
                        thrown.message = "Unexpected token encountered: " \o Join(w)

-----------------------------------------------------------------------------
(* The let specification: a Parser constructed, in either mode, on a text  *)
(*     let sep next tail                                                   *)
(* whose first token is the keyword let, and then either the call of       *)
(* isLexicalDeclaration that parseStatementListItem makes at that token,   *)
(* or the whole parse.  hist.before holds the errors list and the scanner  *)
(* as they were when isLexicalDeclaration was called.                      *)

LetSeparators == {<<" ">>, <<"\n">>}
LetNexts == {
    <<>>, <<"a">>, <<"i", "f">>, <<"[">>, <<"1">>, <<"#">>,
    <<"\\", "u", "0", "0", "6", "1">>,              \* a, escaped
    <<"\\", "u", "0", "0", "6", "9", "f">>,         \* if, escaped
    <<"l", "\\", "u", "0", "0", "6", "5", "t">> }   \* let, escaped
LetTails == {<<>>, <<";">>, <<"=", "1", ";">>}

InitLet ==
    /\ \E sep \in LetSeparators, next \in LetNexts, tail \in LetTails :
           source = <<"l", "e", "t">> \o sep \o next \o tail
    /\ hist = [path |-> <<>>, before |-> [errors |-> <<>>, scanner |-> NewScanner(source)]]
    /\ config \in [tolerant : BOOLEAN, comment : {FALSE}, tokens : {FALSE}]
    /\ scanner = NewScanner(source)
    /\ errors = <<>>
    /\ parser = Null
    /\ body = <<>>
    /\ status = "running"
    /\ thrown = NoError
    /\ last = [op |-> "new"]

\* new Parser(source, config) followed by the call of isLexicalDeclaration
IsLexicalDeclarationCall ==
    /\ status = "running"
    /\ \E p \in {Call("NewParser", <<config>>)} :
           /\ ~p.stopped
           /\ p.lookahead.type = "Keyword" /\ p.lookahead.value = "let"
           /\ \E r \in {Call("isLexicalDeclaration", <<p>>)} :
                  /\ scanner' = ScannerOf(r.m)
                  /\ errors' = r.m.errors
                  /\ parser' = ParserOf(r.m)
                  /\ status' = StatusOf(r.m, "speculated")
                  /\ thrown' = r.m.exc
                  /\ last' = [op |-> "isLexicalDeclaration", result |-> r.node]
                  /\ hist' = [hist EXCEPT !.before = [errors |-> p.errors,
                                                      scanner |-> ScannerOf(p)]]
    /\ UNCHANGED <<source, config, body>>

NextLet == IsLexicalDeclarationCall \/ ParseCall

SpecLet == InitLet /\ [][NextLet]_vars

\* C17: the speculation of isLexicalDeclaration leaves the errors list as it was
\* when it was called, in both modes, so that a tolerated scanner error on the token
\* after let (an escaped reserved word) is in the errors list of the whole parse
\* once, not once for the speculation and once more for the lex that follows.
C17_SpeculationRecordsNothing ==
    /\ last.op = "isLexicalDeclaration" => errors = hist.before.errors
    /\ AfterParse => \A i, j \in 1..Len(errors) : errors[i] = errors[j] => i = j

-----------------------------------------------------------------------------
(* The cover-grammar specification: a Parser constructed on the text `a`,  *)
(* and then calls of isolateCoverGrammar(fn) and inheritCoverGrammar(fn)   *)
(* for parse functions fn that leave the two flags and the deferred error  *)
(* at any values, or throw; between them the flags are set to true as      *)
(* parseStatementListItem sets them.  hist holds the context before the    *)
(* last call, the context fn started with and the context fn left.         *)

\* the machine of the Parser whose state the variables hold
ParserMachine ==
    [index |-> scanner.index, lineNumber |-> scanner.lineNumber,
     lineStart |-> scanner.lineStart, curly |-> scanner.curly,
     trackComment |-> config.comment, tolerant |-> config.tolerant,
     errors |-> errors, exc |-> NoError, hung |-> FALSE, stopped |-> FALSE,
     frames |-> {},
     lookahead |-> parser.lookahead, hasLineTerminator |-> parser.hasLineTerminator,
     context |-> parser.context, tokens |-> parser.tokens, tokensOn |-> config.tokens,
     startMarker |-> parser.startMarker, lastMarker |-> parser.lastMarker]

\* the tokens a parse function records as the deferred error
NameTokens ==
    {[type |-> "Punctuator", value |-> "=", number |-> NotANumber,
      lineNumber |-> 1, lineStart |-> 0, start |-> i, end |-> i + 1] : i \in 1..2}

\* what a parse function does to the cover grammar: throw, or leave the three
\* fields at these values
ParseFunctions ==
    [throws : BOOLEAN, isBindingElement : BOOLEAN, isAssignmentTarget : BOOLEAN,
     firstCoverInitializedNameError : {Null} \cup NameTokens]

\* parseFunction.call(this): [m, node]
CallParseFunction(fn, p) ==
    IF fn.throws THEN Ret(ParserThrowError(p, Messages.UnexpectedToken, <<"a">>), UndefinedNode)
    ELSE Ret([p EXCEPT !.context.isBindingElement = fn.isBindingElement,
                       !.context.isAssignmentTarget = fn.isAssignmentTarget,
                       !.context.firstCoverInitializedNameError =
                           fn.firstCoverInitializedNameError],
             IdentifierA)

\* the three fields of a context
CoverOf(context) ==
    [isBindingElement |-> context.isBindingElement,
     isAssignmentTarget |-> context.isAssignmentTarget,
     firstCoverInitializedNameError |-> context.firstCoverInitializedNameError]

InitCover ==
    /\ source = <<"a">>
    /\ config \in [tolerant : BOOLEAN, comment : {FALSE}, tokens : {FALSE}]
    /\ \E p \in {Call("NewParser", <<config>>)} :
           /\ scanner = ScannerOf(p)
           /\ parser = ParserOf(p)
           /\ hist = [path |-> <<>>, before |-> CoverOf(p.context),
                      seen |-> CoverOf(p.context), fn |-> Null]
    /\ errors = <<>>
    /\ body = <<>>
    /\ status = "running"
    /\ thrown = NoError
    /\ last = [op |-> "new"]

\* this.context.isAssignmentTarget = true; this.context.isBindingElement = true
SetCoverCall ==
    /\ status = "running"
    /\ parser' = ParserOf(SetCover(ParserMachine, TRUE, TRUE))
    /\ last' = [op |-> "SetCover"]
    /\ UNCHANGED <<source, config, scanner, errors, body, status, thrown, hist>>

AfterCoverCall(op, fn, r) ==
    /\ parser' = ParserOf(r.m)
    /\ errors' = r.m.errors
    /\ status' = StatusOf(r.m, "running")
    /\ thrown' = r.m.exc
    /\ last' = [op |-> op]
    /\ hist' = [hist EXCEPT !.before = CoverOf(parser.context),
                            !.seen = CoverOf(CoverGrammar(ParserMachine).context),
                            !.fn = fn]
    /\ UNCHANGED <<source, config, scanner, body>>

\* a call of isolateCoverGrammar(fn)
IsolateCall ==
    /\ status = "running"
    /\ \E fn \in ParseFunctions :
       \E r \in {isolateCoverGrammar(ParserMachine,
                                     CallParseFunction(fn, CoverGrammar(ParserMachine)))} :
           AfterCoverCall("isolateCoverGrammar", fn, r)

\* a call of inheritCoverGrammar(fn)
InheritCall ==
    /\ status = "running"
    /\ \E fn \in ParseFunctions :
       \E r \in {inheritCoverGrammar(ParserMachine,
                                     CallParseFunction(fn, CoverGrammar(ParserMachine)))} :
           AfterCoverCall("inheritCoverGrammar", fn, r)

NextCover == SetCoverCall \/ IsolateCall \/ InheritCall

SpecCover == InitCover /\ [][NextCover]_vars

Permissive ==
    [isBindingElement |-> TRUE, isAssignmentTarget |-> TRUE,
     firstCoverInitializedNameError |-> Null]

\* C18: isolateCoverGrammar(fn) runs fn with both flags true and the deferred error
\* null; when it returns, the two flags and the deferred error have the values they
\* had when it was called, whatever fn left; when fn leaves a deferred error it
\* raises and does not return.
C18_Isolate ==
    last.op = "isolateCoverGrammar" =>
        /\ hist.seen = Permissive
        /\ status = "running" => CoverOf(parser.context) = hist.before
        /\ (~hist.fn.throws /\ hist.fn.firstCoverInitializedNameError # Null) =>
               status = "raised"
        /\ (~hist.fn.throws /\ hist.fn.firstCoverInitializedNameError = Null) =>
               status = "running"

\* isolateCoverGrammar called with both flags true returned with them true after
\* an fn that cleared them
C18_Witness ==
    /\ last.op = "isolateCoverGrammar" /\ status = "running"
    /\ hist.before.isBindingElement /\ hist.before.isAssignmentTarget
    /\ ~hist.fn.isBindingElement /\ ~hist.fn.isAssignmentTarget
    /\ parser.context.isBindingElement /\ parser.context.isAssignmentTarget

\* C19: inheritCoverGrammar(fn) runs fn with both flags true and the deferred error
\* null; when it returns, each flag is the value fn left and the caller's value
\* before the call, so a flag that was false before is false after, and the deferred
\* error is the caller's when the caller had one and otherwise the one fn left.
C19_Inherit ==
    (last.op = "inheritCoverGrammar" /\ ~hist.fn.throws) =>
        /\ hist.seen = Permissive
        /\ status = "running"
        /\ parser.context.isBindingElement =
               (hist.fn.isBindingElement /\ hist.before.isBindingElement)
        /\ parser.context.isAssignmentTarget =
               (hist.fn.isAssignmentTarget /\ hist.before.isAssignmentTarget)
        /\ parser.context.firstCoverInitializedNameError =
               IF hist.before.firstCoverInitializedNameError # Null
               THEN hist.before.firstCoverInitializedNameError
               ELSE hist.fn.firstCoverInitializedNameError

\* the caller had a deferred error, fn left another one, and the caller's stayed
C19_Witness ==
    /\ last.op = "inheritCoverGrammar" /\ status = "running"
    /\ hist.before.firstCoverInitializedNameError # Null
    /\ hist.fn.firstCoverInitializedNameError # Null
    /\ hist.fn.firstCoverInitializedNameError # hist.before.firstCoverInitializedNameError
    /\ parser.context.firstCoverInitializedNameError =
           hist.before.firstCoverInitializedNameError
    /\ hist.before.isBindingElement /\ ~hist.fn.isBindingElement
    /\ ~parser.context.isBindingElement

-----------------------------------------------------------------------------
(* The expression specification: a Parser constructed, in either mode, on  *)
(* the text of an expression, and then a call of one expression production *)
(* in the context in which the productions are called: the one that        *)
(* isolateCoverGrammar and inheritCoverGrammar set up.  (The productions    *)
(* the code calls directly, parseConditionalExpression and                 *)
(* parseUpdateExpression, are called first thing by a production that was  *)
(* called so.)  The texts hold the expressions inside them as well, so a   *)
(* return inside an expression is the return of a call on the inner text.  *)

ExpressionTexts == {
    <<"a">>, <<"1">>, <<"l", "e", "t">>, <<"(", ")">>,
    <<"(", "a", ")">>, <<"(", "1", ")">>,
    <<"(", "a", ",", "b", ")">>, <<"(", "a", ",", "1", ")">>, <<"(", "1", ",", "a", ")">>,
    <<"(", "a", ",", "b">>, <<"(", "a", ",", ")">>,
    <<"a", ",", "b">>, <<"a", "=", "1">>, <<"(", "a", ")", "=", "1">>,
    <<"(", "a", ",", "b", ")", "=", "1">>, <<"(", "a", "=", "1", ")">>,
    <<"(", "a", "=", "1", ",", "b", ")">>,
    <<"a", "+", "b">>, <<"(", "a", "+", "b", ")">>, <<"-", "a">>, <<"a", "+", "+">>,
    <<"+", "+", "a">>, <<"a", "*", "*", "b">>, <<"a", "(", "b", ")">>,
    <<"a", "?", "b", ":", "a">>, <<"(", "a", ",", "b", ")", "(", "a", ")">> }

ExpressionProductions == {
    "parsePrimaryExpression", "parseGroupExpression",
    "parseLeftHandSideExpressionAllowCall", "parseUpdateExpression",
    "parseUnaryExpression", "parseExponentiationExpression", "parseBinaryExpression",
    "parseConditionalExpression", "parseAssignmentExpression" }

InitExpressions ==
    /\ source \in ExpressionTexts
    /\ config \in [tolerant : BOOLEAN, comment : {FALSE}, tokens : {FALSE}]
    /\ \E p \in {CoverGrammar(Call("NewParser", <<config>>))} :
           /\ scanner = ScannerOf(p)
           /\ parser = ParserOf(p)
    /\ hist = [path |-> <<>>]
    /\ errors = <<>>
    /\ body = <<>>
    /\ status = "running"
    /\ thrown = NoError
    /\ last = [op |-> "new"]

\* a call of an expression production
ProductionCall ==
    /\ status = "running"
    /\ \E f \in ExpressionProductions :
       \E r \in {Call(f, <<ParserMachine>>)} :
           /\ scanner' = ScannerOf(r.m)
           /\ parser' = ParserOf(r.m)
           /\ errors' = r.m.errors
           /\ status' = StatusOf(r.m, "returned")
           /\ thrown' = r.m.exc
           /\ last' = [op |-> f, node |-> r.node]
    /\ UNCHANGED <<source, config, body, hist>>

SpecExpressions == InitExpressions /\ [][ProductionCall]_vars

\* C20: when an expression production (parsePrimaryExpression,
\* parseGroupExpression, parseAssignmentExpression and the productions between
\* them) returns, isBindingElement implies isAssignmentTarget: no production returns
\* with isBindingElement true and isAssignmentTarget false, also on a parenthesized
\* comma sequence and inside one.
C20_BindingImpliesTarget ==
    (last.op \in ExpressionProductions /\ status = "returned") =>
        (parser.context.isBindingElement => parser.context.isAssignmentTarget)

\* parseGroupExpression returned the sequence of (a, b), with both flags false
C20_Witness ==
    /\ last.op = "parseGroupExpression" /\ status = "returned"
    /\ source = <<"(", "a", ",", "b", ")">>
    /\ last.node = NodeSequenceExpression(<<NodeIdentifier("a"), NodeIdentifier("b")>>)
    /\ ~parser.context.isBindingElement /\ ~parser.context.isAssignmentTarget

-----------------------------------------------------------------------------
(* The assignment-target specification: the expression productions on an   *)
(* operand of each kind, alone and with an assignment operator, a postfix  *)
(* or a prefix ++ or -- applied to it.  An operand the operator would not  *)
(* bind to as written is put in parentheses.                               *)

Paren(text) == <<"(">> \o text \o <<")">>

Operands == {
    [kind |-> "Identifier", text |-> <<"a">>],
    [kind |-> "Group", text |-> <<"(", "a", ")">>],
    [kind |-> "CallExpression", text |-> <<"a", "(", "b", ")">>],
    [kind |-> "Literal", text |-> <<"1">>],
    [kind |-> "UnaryExpression", text |-> <<"-", "a">>],
    [kind |-> "Postfix", text |-> <<"a", "+", "+">>],
    [kind |-> "Prefix", text |-> <<"-", "-", "a">>],
    [kind |-> "BinaryExpression", text |-> <<"a", "+", "b">>],
    [kind |-> "Exponentiation", text |-> <<"a", "*", "*", "b">>],
    [kind |-> "ConditionalExpression", text |-> <<"a", "?", "b", ":", "a">>] }

\* the operand kinds that are assignment targets
TargetKinds == {"Identifier", "Group"}

AssignmentOperators == {<<"=">>, <<"+", "=">>}
UpdateOperators == {<<"+", "+">>, <<"-", "-">>}

\* the forms: the operand alone, operand op 1, operand op, op operand
Forms == {"alone", "assign", "postfix", "prefix"}

\* whether the operator of the form binds to the operand as written
Binds(kind, form) ==
    CASE form = "assign" -> kind # "ConditionalExpression"
      [] form = "postfix" -> kind \in {"Identifier", "Group", "CallExpression", "Literal"}
      [] form = "prefix" -> kind \notin {"BinaryExpression", "Exponentiation",
                                          "ConditionalExpression"}
      [] OTHER -> TRUE

AppliedText(o, form, op) ==
    LET text == IF Binds(o.kind, form) THEN o.text ELSE Paren(o.text)
    IN  CASE form = "assign" -> text \o op \o <<"1">>
          [] form = "postfix" -> text \o op
          [] form = "prefix" -> op \o text
          [] OTHER -> text

OperatorsOf(form) ==
    CASE form = "assign" -> AssignmentOperators
      [] form = "alone" -> {<<>>}
      [] OTHER -> UpdateOperators

InitTargets ==
    /\ \E o \in Operands : \E form \in Forms : \E op \in OperatorsOf(form) :
           /\ source = AppliedText(o, form, op)
           /\ hist = [path |-> <<>>, kind |-> o.kind, form |-> form]
    /\ config \in [tolerant : BOOLEAN, comment : {FALSE}, tokens : {FALSE}]
    /\ \E p \in {CoverGrammar(Call("NewParser", <<config>>))} :
           /\ scanner = ScannerOf(p)
           /\ parser = ParserOf(p)
    /\ errors = <<>>
    /\ body = <<>>
    /\ status = "running"
    /\ thrown = NoError
    /\ last = [op |-> "new"]

SpecTargets == InitTargets /\ [][ProductionCall]_vars

\* the node types of the constructs that are not assignment targets
NonTargetTypes ==
    {"CallExpression", "Literal", "UnaryExpression", "UpdateExpression", "BinaryExpression",
     "ConditionalExpression"}

\* parseAssignmentExpression has ended on the text of form `form`
AssignmentEnded(form) ==
    /\ last.op = "parseAssignmentExpression" /\ status # "running"
    /\ hist.form = form

\* C21: when a production returns a call expression, a literal, a unary, update, binary,
\* ** or conditional expression, isAssignmentTarget and isBindingElement are both false;
\* an assignment operator, a postfix or a prefix ++ or -- applied to such an operand
\* reports InvalidLHSInAssignment, once: recorded in tolerant mode (and the parse goes
\* on), raised in strict mode; applied to an identifier or to (a) it reports nothing.
C21_NonTargetsClearFlags ==
    /\ (last.op \in ExpressionProductions /\ status = "returned"
            /\ last.node # UndefinedNode /\ last.node.type \in NonTargetTypes) =>
           (~parser.context.isAssignmentTarget /\ ~parser.context.isBindingElement)
    /\ \A form \in Forms \ {"alone"} :
           AssignmentEnded(form) =>
               IF hist.kind \in TargetKinds
               THEN status = "returned" /\ errors = <<>>
               ELSE IF config.tolerant
               THEN /\ status = "returned"
                    /\ DescriptionsOf(errors) = <<Messages.InvalidLHSInAssignment>>
               ELSE /\ status = "raised"
                    /\ thrown.description = Messages.InvalidLHSInAssignment
                    /\ errors = <<>>

\* a tolerant parse recorded the error for the call a(b) = 1 and returned the assignment
C21_Witness ==
    /\ AssignmentEnded("assign") /\ hist.kind = "CallExpression" /\ config.tolerant
    /\ source = <<"a", "(", "b", ")", "=", "1">>
    /\ status = "returned"
    /\ last.node.type = "AssignmentExpression"
    /\ DescriptionsOf(errors) = <<Messages.InvalidLHSInAssignment>>

-----------------------------------------------------------------------------
(* The statement specification: parseScript's loop taken one statement at  *)
(* a time.  Each step is one call of parseStatementListItem, on the text   *)
(* of a path followed or preceded by another statement.  The context at    *)
(* the first call is the one of a new Parser or one that a statement list  *)
(* inside a loop body, a function body or a labeled statement starts with. *)
(* last.before is the context before the last call.                        *)

MaxLoopNest == 2

LoopInnermost == {"expr", "break", "continue"}

\* the contexts a statement list is entered with: at the top of the Script, in the body
\* of a loop labeled b, in the body of a function
EntryContext(inFunctionBody, inIteration, labelSet) ==
    [firstCoverInitializedNameError |-> Null,
     isAssignmentTarget |-> FALSE, isBindingElement |-> FALSE,
     inFunctionBody |-> inFunctionBody, inIteration |-> inIteration, labelSet |-> labelSet]

EntryContexts ==
    {EntryContext(FALSE, FALSE, {}), EntryContext(FALSE, TRUE, {"b"}),
     EntryContext(TRUE, FALSE, {})}

InitLoops ==
    /\ hist \in [path : ListPaths(LoopInnermost, MaxLoopNest)]
    /\ source = PathText(hist.path)
    /\ config \in [tolerant : BOOLEAN, comment : {FALSE}, tokens : {FALSE}]
    /\ \E context \in EntryContexts :
       \E p \in {Call("NewParser", <<config>>)} :
           /\ scanner = ScannerOf(p)
           /\ parser = ParserOf([p EXCEPT !.context = context])
    /\ errors = <<>>
    /\ body = <<>>
    /\ status = "running"
    /\ thrown = NoError
    /\ last = [op |-> "new", before |-> parser.context]

\* one turn of the loop of parseScript (or of parseBlock)
StatementCall ==
    /\ status = "running"
    /\ parser.lookahead.type # "EOF"
    /\ \E r \in {Call("parseStatementListItem", <<ParserMachine>>)} :
           /\ scanner' = ScannerOf(r.m)
           /\ parser' = ParserOf(r.m)
           /\ errors' = r.m.errors
           /\ status' = StatusOf(r.m, "running")
           /\ thrown' = r.m.exc
           /\ body' = IF r.m.stopped THEN body ELSE Append(body, r.node)
           /\ last' = [op |-> "parseStatementListItem", before |-> parser.context]
    /\ UNCHANGED <<source, config, hist>>

SpecLoops == InitLoops /\ [][StatementCall]_vars

\* a statement has been returned to the loop
StatementReturned == last.op = "parseStatementListItem" /\ status = "running"

LoopTypes == {"WhileStatement", "DoWhileStatement", "ForStatement"}

\* the context of a new Parser
IsTopContext(context) ==
    ~context.inIteration /\ ~context.inFunctionBody /\ context.labelSet = {}

\* C22: after a while, do-while or for statement returned normally, inIteration is what
\* it was before the loop was entered, whatever the loop encloses; and after every
\* statement returned to parseScript's loop, inIteration is false, inFunctionBody is
\* false and labelSet is empty.
C22_IterationRestored ==
    StatementReturned =>
        /\ Last(body).type \in LoopTypes =>
               parser.context.inIteration = last.before.inIteration
        /\ IsTopContext(last.before) => IsTopContext(parser.context)

\* a do-while entered outside any loop, with a while and a break in its body, returned
\* and inIteration is false again
C22_Witness ==
    /\ StatementReturned
    /\ hist.path = <<"do", "while", "break">>
    /\ Last(body).type = "DoWhileStatement"
    /\ ~last.before.inIteration /\ ~parser.context.inIteration
    /\ errors = <<>>

-----------------------------------------------------------------------------
(* The label specification: parseScript's loop, one statement at a time,   *)
(* on a statement that nests labels a:, loops, blocks and functions around *)
(* break a, continue a or an expression, alone or after the labeled        *)
(* statement a:a; (hist.sibling).                                          *)

MaxLabelNest == 3

LabelInnermost == {"breakA", "continueA", "expr"}
LabelEnclosing == {"label", "while", "block", "def"}

RECURSIVE LabelPaths(_)
LabelPaths(d) ==
    {<<b>> : b \in LabelInnermost}
    \cup IF d = 0 THEN {} ELSE {<<w>> \o x : w \in LabelEnclosing, x \in LabelPaths(d - 1)}

SiblingText == <<"a", ":", "a", ";">>

InitLabels ==
    /\ hist \in [path : LabelPaths(MaxLabelNest), sibling : BOOLEAN]
    /\ source = (IF hist.sibling THEN SiblingText ELSE <<>>) \o PathText(hist.path)
    /\ config \in [tolerant : BOOLEAN, comment : {FALSE}, tokens : {FALSE}]
    /\ \E context \in EntryContexts :
       \E p \in {Call("NewParser", <<config>>)} :
           /\ scanner = ScannerOf(p)
           /\ parser = ParserOf([p EXCEPT !.context = context])
    /\ errors = <<>>
    /\ body = <<>>
    /\ status = "running"
    /\ thrown = NoError
    /\ last = [op |-> "new", before |-> parser.context]

SpecLabels == InitLabels /\ [][StatementCall]_vars

\* the call of parseStatementListItem on the statement of the path has ended
PathStatementEnded ==
    /\ last.op = "parseStatementListItem"
    /\ IF hist.sibling THEN Len(body) = 2 \/ (Len(body) = 1 /\ status = "raised")
       ELSE Len(body) = 1 \/ status = "raised"

\* a label a: stands inside the body of another, with or without a function between
Redeclares(path) ==
    \E i, j \in 1..Len(path) : i < j /\ path[i] = "label" /\ path[j] = "label"
RedeclaresInSameFunction(path) ==
    \E i, j \in 1..Len(path) :
        /\ i < j /\ path[i] = "label" /\ path[j] = "label"
        /\ \A k \in i..j : path[k] # "def"

\* what the statement of the path raises ("" if it is accepted), with the labels in
\* labelSet given by declared and the redeclarations by redeclares
LabelOutcome(path, declared, redeclares) ==
    IF redeclares THEN Format(Messages.Redeclaration, <<"Label", "a">>)
    ELSE IF Last(path) \in {"breakA", "continueA"} /\ ~declared
    THEN Format(Messages.UnknownLabel, <<"a">>)
    ELSE ""

\* what the last call raised ("" if it returned)
RaisedDescription == IF status = "raised" THEN thrown.description ELSE ""

\* the part of the label discipline on which the function bodies have no bearing
LabelFrame ==
    /\ (StatementReturned /\ Last(body).type = "LabeledStatement") =>
           parser.context.labelSet = last.before.labelSet
    /\ (hist.sibling /\ last.op = "parseStatementListItem") =>
           (Len(body) >= 1 /\ body[1].type = "LabeledStatement")
    /\ errors = <<>>

\* C23 as stated: after a labeled statement returned labelSet is what it was before; a is
\* in labelSet everywhere inside the body of a: (break a and continue a are accepted there,
\* in a loop or not, and raise UnknownLabel elsewhere; declaring a: again there raises
\* Redeclaration); a: after the sibling statement a:a; is accepted.
C23_LabelEverywhereInBody ==
    /\ LabelFrame
    /\ PathStatementEnded =>
           RaisedDescription = LabelOutcome(hist.path, Has(hist.path, "label"),
                                            Redeclares(hist.path))

\* C23, amended: the same, where the body of a: ends at the body of a function declared
\* inside it: in the function body labelSet starts empty, break a raises UnknownLabel
\* and a: is declared again without an error.
C23_LabelInBodyOutsideFunctions ==
    /\ LabelFrame
    /\ PathStatementEnded =>
           RaisedDescription = LabelOutcome(hist.path, LabelDeclared(hist.path),
                                            RedeclaresInSameFunction(hist.path))

\* a: was declared again inside a block in the body of a:, after the sibling a:a;, and
\* the redeclaration was raised
C23_Witness ==
    /\ PathStatementEnded /\ hist.sibling
    /\ hist.path = <<"label", "block", "label", "breakA">>
    /\ status = "raised"
    /\ thrown.description = "Label 'a' has already been declared"
    /\ Len(body) = 1

-----------------------------------------------------------------------------
(* The exponentiation specification: parse on the statement  l ** r ;  for *)
(* every pair of operands, and on the chains of ** and *.  hist holds the  *)
(* text, the node it stands for, and whether the left operand of ** is a   *)
(* unary expression not in parentheses.                                    *)

PowerText == <<" ", "*", "*", " ">>
PowerA == NodeBinaryExpression("**", NodeIdentifier("a"), NodeIdentifier("b"))

PowerOperands == {
    [text |-> <<"a">>, node |-> NodeIdentifier("a"), unary |-> FALSE],
    [text |-> <<"b">>, node |-> NodeIdentifier("b"), unary |-> FALSE],
    [text |-> <<"(", "a", ")">>, node |-> NodeIdentifier("a"), unary |-> FALSE],
    [text |-> <<"-", "a">>, node |-> NodeUnaryExpression("-", NodeIdentifier("a")),
     unary |-> TRUE],
    [text |-> <<"!", "a">>, node |-> NodeUnaryExpression("!", NodeIdentifier("a")),
     unary |-> TRUE],
    [text |-> <<"(", "-", "a", ")">>, node |-> NodeUnaryExpression("-", NodeIdentifier("a")),
     unary |-> FALSE],
    [text |-> <<"(", "!", "a", ")">>, node |-> NodeUnaryExpression("!", NodeIdentifier("a")),
     unary |-> FALSE] }

\* the chains: a ** b ** c, a * b ** c, a ** b * c, and -(a ** b)
PowerChains == {
    [text |-> <<"-", "(", "a">> \o PowerText \o <<"b", ")">>,
     node |-> NodeUnaryExpression("-", PowerA), unary |-> FALSE],
    [text |-> <<"a">> \o PowerText \o <<"b">> \o PowerText \o <<"c">>,
     node |-> NodeBinaryExpression("**", NodeIdentifier("a"),
                  NodeBinaryExpression("**", NodeIdentifier("b"), NodeIdentifier("c"))),
     unary |-> FALSE],
    [text |-> <<"a", " ", "*", " ", "b">> \o PowerText \o <<"c">>,
     node |-> NodeBinaryExpression("*", NodeIdentifier("a"),
                  NodeBinaryExpression("**", NodeIdentifier("b"), NodeIdentifier("c"))),
     unary |-> FALSE],
    [text |-> <<"a">> \o PowerText \o <<"b", " ", "*", " ", "c">>,
     node |-> NodeBinaryExpression("*", PowerA, NodeIdentifier("c")),
     unary |-> FALSE] }

PowerPairs ==
    {[text |-> l.text \o PowerText \o r.text,
      node |-> NodeBinaryExpression("**", l.node, r.node),
      unary |-> l.unary] : l, r \in PowerOperands}

InitPower ==
    /\ hist \in PowerPairs \cup PowerChains
    /\ source = hist.text \o <<";">>
    /\ config \in [tolerant : BOOLEAN, comment : {FALSE}, tokens : {FALSE}]
    /\ scanner = NewScanner(source)
    /\ errors = <<>>
    /\ parser = Null
    /\ body = <<>>
    /\ status = "running"
    /\ thrown = NoError
    /\ last = [op |-> "new"]

SpecPower == InitPower /\ [][ParseCall]_vars

\* C24: a ** b ** c is BinaryExpression(**, a, BinaryExpression(**, b, c)), a * b ** c
\* has the ** node under *, and l ** r is rejected with an unexpected-token error when l
\* is a unary expression written without parentheses, and accepted, as
\* BinaryExpression(**, l, r), otherwise: also when l is a unary expression in
\* parentheses, (-a) ** b, and for -(a ** b).
C24_Exponentiation ==
    AfterParse =>
        IF hist.unary
        THEN /\ status = "raised"
             /\ thrown.description = Format(Messages.UnexpectedToken, <<"**">>)
        ELSE /\ status = "returned"
             /\ errors = <<>>
             /\ body = <<NodeExpressionStatement(hist.node)>>

-----------------------------------------------------------------------------
(* The line-terminator specification: the statements whose parse depends   *)
(* on hasLineTerminator, with every separator at the place that decides.   *)
(* The Parser is constructed and its tokens are taken one nextToken() at a *)
(* time; parse(code, options) is called on the same text.  last.end is the *)
(* end of the token the last nextToken() returned.                         *)

Separators == {
    <<" ">>, <<" ", " ">>, <<"\t">>,
    <<"\n">>, <<"\r">>, <<"\r", "\n">>, <<" ", "\n", " ">>,
    <<"/", "/", "\n">>, <<" ", "/", "/", "c", "\n", " ">> }

HasTerminator(sep) == \E i \in 1..Len(sep) : IsLineTerminator(sep[i])
HasComment(sep) == \E i \in 1..Len(sep) : sep[i] = "/"

Gates == {"return", "break", "continue", "postfix", "statement", "brace", "end"}

GateText(gate, sep) ==
    CASE gate = "return" ->
            <<"d", "e", "f", " ", "f", "(", ")", "{", "r", "e", "t", "u", "r", "n">>
                \o sep \o <<"a", ";", "}">>
      [] gate = "break" ->
            <<"a", ":", "w", "h", "i", "l", "e", "(", "a", ")", "{", "b", "r", "e", "a", "k">>
                \o sep \o <<"a", ";", "}">>
      [] gate = "continue" ->
            <<"a", ":", "w", "h", "i", "l", "e", "(", "a", ")", "{",
              "c", "o", "n", "t", "i", "n", "u", "e">> \o sep \o <<"a", ";", "}">>
      [] gate = "postfix" -> <<"a">> \o sep \o <<"+", "+", "b", ";">>
      [] gate = "statement" -> <<"a">> \o sep \o <<"b", ";">>
      [] gate = "brace" -> <<"{", "a">> \o sep \o <<"}">>
      [] OTHER -> <<"a">> \o sep

InitTerminators ==
    /\ hist \in [gate : Gates, sep : Separators]
    /\ source = GateText(hist.gate, hist.sep)
    /\ config \in [tolerant : BOOLEAN, comment : BOOLEAN, tokens : {FALSE}]
    /\ \E p \in {Call("NewParser", <<config>>)} :
           /\ scanner = ScannerOf(p)
           /\ parser = ParserOf(p)
    /\ errors = <<>>
    /\ body = <<>>
    /\ status = "running"
    /\ thrown = NoError
    /\ last = [op |-> "new", end |-> 0]

\* a call of nextToken()
NextTokenCall ==
    /\ status = "running"
    /\ last.op \in {"new", "nextToken"}
    /\ parser.lookahead.type # "EOF"
    /\ \E r \in {Call("nextToken", <<ParserMachine>>)} :
           /\ scanner' = ScannerOf(r.m)
           /\ parser' = ParserOf(r.m)
           /\ errors' = r.m.errors
           /\ status' = StatusOf(r.m, "running")
           /\ thrown' = r.m.exc
           /\ last' = [op |-> "nextToken", end |-> IF r.m.stopped THEN 0 ELSE r.tok.end]
    /\ UNCHANGED <<source, config, body, hist>>

NextTerminators == NextTokenCall \/ ParseCall

SpecTerminators == InitTerminators /\ [][NextTerminators]_vars

\* a line terminator stands in source[from, to)
TerminatorBetween(from, to) == \E i \in from..(to - 1) : IsLineTerminator(CharAt(i))

\* what the statements of the gate are, with and without a line terminator at the place
\* of the separator: the statements of the function body, of the loop body, of the Script
IdentifierB == NodeIdentifier("b")
GateStatements(gate, terminator) ==
    CASE gate = "return" ->
            IF terminator THEN <<NodeReturnStatement(Null), ExpressionA>>
            ELSE <<NodeReturnStatement(IdentifierA)>>
      [] gate = "break" ->
            IF terminator THEN <<NodeBreakStatement(Null), ExpressionA>>
            ELSE <<NodeBreakStatement(IdentifierA)>>
      [] gate = "continue" ->
            IF terminator THEN <<NodeContinueStatement(Null), ExpressionA>>
            ELSE <<NodeContinueStatement(IdentifierA)>>
      [] gate = "postfix" ->
            <<ExpressionA,
              NodeExpressionStatement(NodeUpdateExpression("++", IdentifierB, TRUE))>>
      [] gate = "statement" -> <<ExpressionA, NodeExpressionStatement(IdentifierB)>>
      [] OTHER -> <<ExpressionA>>

GateBody(gate, terminator) ==
    LET stmts == GateStatements(gate, terminator)
    IN  CASE gate = "return" ->
                <<NodeFunctionDeclaration(NodeIdentifier("f"), <<>>,
                                          NodeBlockStatement(stmts), FALSE)>>
          [] gate \in {"break", "continue"} ->
                <<NodeLabeledStatement(IdentifierA,
                      NodeWhileStatement(IdentifierA, NodeBlockStatement(stmts)))>>
          [] gate = "brace" -> <<NodeBlockStatement(stmts)>>
          [] OTHER -> stmts

\* the statement is rejected: no line terminator, `}` or end of text after it
GateRejected(gate, terminator) == gate \in {"postfix", "statement"} /\ ~terminator

\* C25: after every nextToken(), hasLineTerminator is true exactly when a line terminator
\* stands between the token it returned and the new lookahead; return, break and
\* continue followed by a line terminator get a null argument or label and the
\* identifier starts a new statement; ++ on a new line is a prefix operator of what
\* follows; a statement not ended by `;` is accepted only if a line terminator, `}` or
\* the end of the text follows, and an unexpected-token error is raised otherwise.
C25_LineTerminatorGates ==
    /\ (last.op \in {"new", "nextToken"} /\ status = "running") =>
           (parser.hasLineTerminator <=> TerminatorBetween(last.end, parser.lookahead.start))
    /\ AfterParse =>
           IF GateRejected(hist.gate, HasTerminator(hist.sep))
           THEN /\ status = "raised"
                /\ thrown.description = Messages.UnexpectedIdentifier
           ELSE /\ status = "returned"
                /\ errors = <<>>
                /\ body = GateBody(hist.gate, HasTerminator(hist.sep))

\* the same where no comment is tracked: the comment option is off or the separator
\* holds no comment
C25_WithoutTrackedComment ==
    (config.comment /\ HasComment(hist.sep)) \/ C25_LineTerminatorGates

\* return and a on two lines: the parse returned a return without argument and the
\* statement a;
C25_Witness ==
    /\ AfterParse /\ hist.gate = "return" /\ hist.sep = <<"\r", "\n">>
    /\ status = "returned"
    /\ body[1].body.body = <<NodeReturnStatement(Null), ExpressionA>>

-----------------------------------------------------------------------------
(* The termination specification: parse(code, options) under every         *)
(* configuration of tolerant and comment, on the texts made of at most     *)
(* MaxTerminationFrags of these pieces.  A call that never returns leaves  *)
(* status "hung".                                                          *)

MaxTerminationFrags == 3

TerminationFrags == {
    <<"a", ";">>, <<"\n">>, <<"/", "/", "\n">>, <<"/", "/", "c">>, <<"{">>, <<"}">> }

InitTermination ==
    /\ source \in Texts(TerminationFrags, MaxTerminationFrags)
    /\ config \in [tolerant : BOOLEAN, comment : BOOLEAN, tokens : {FALSE}]
    /\ hist = [path |-> <<>>]
    /\ scanner = NewScanner(source)
    /\ errors = <<>>
    /\ parser = Null
    /\ body = <<>>
    /\ status = "running"
    /\ thrown = NoError
    /\ last = [op |-> "new"]

SpecTermination == InitTermination /\ [][ParseCall]_vars

\* C27: parse terminates on every source under every configuration: it returns a Script
\* or raises; in particular no scanComments() on a line comment followed by a line
\* terminator runs forever when the comments are tracked.
C27_ParseTerminates == AfterParse => status \in {"returned", "raised"}

\* the same with the comment option off
C27_WithoutTracking == config.comment \/ C27_ParseTerminates

-----------------------------------------------------------------------------
(* The failure specification: parse(code, options), tolerant or not, on    *)
(* the texts made of at most MaxFailureFrags of these pieces, with no      *)
(* parenthesis inside another and at most one sign: groups that are empty, *)
(* closed, left open or never opened.  thrown is what the parse raised.    *)

MaxFailureFrags == 3

FailureFrags == {
    <<"(">>, <<")">>, <<"(", ")">>, <<"a">>, <<";">>, <<"-">>, <<"\n">> }

\* the parentheses open after the first i characters
Opened(text, i) ==
    Cardinality({k \in 1..i : text[k] = "("}) - Cardinality({k \in 1..i : text[k] = ")"})

InitFailures ==
    /\ source \in {t \in Texts(FailureFrags, MaxFailureFrags) :
                       /\ \A i \in 1..Len(t) : Opened(t, i) <= 1
                       /\ Cardinality({i \in 1..Len(t) : t[i] = "-"}) <= 1}
    /\ config \in [tolerant : BOOLEAN, comment : {FALSE}, tokens : {FALSE}]
    /\ hist = [path |-> <<>>]
    /\ scanner = NewScanner(source)
    /\ errors = <<>>
    /\ parser = Null
    /\ body = <<>>
    /\ status = "running"
    /\ thrown = NoError
    /\ last = [op |-> "new"]

SpecFailures == InitFailures /\ [][ParseCall]_vars

\* a record as ErrorHandler.createError builds it
IsDiagnostic(e) ==
    /\ DOMAIN e = {"name", "message", "index", "lineNumber", "column", "description"}
    /\ e.name = "Error"
    /\ e.message = "Line " \o ToStr(e.lineNumber) \o ": " \o e.description

\* an opening parenthesis that starts a primary expression (no operand before it, so
\* these are not the parentheses of a call) with nothing but line terminators before
\* the closing one
EmptyGroup(text) ==
    \E i, j \in 1..Len(text) :
        /\ i < j /\ text[i] = "(" /\ text[j] = ")"
        /\ \A k \in (i + 1)..(j - 1) : text[k] = "\n"
        /\ \A h \in 1..(i - 1) :
               text[h] \in {"a", ")"} => \E k \in (h + 1)..(i - 1) : text[k] # "\n"

\* C28: every failure of parse is a diagnostic record of createError, also the failure
\* on an empty parenthesized group.
C28_FailureIsDiagnostic ==
    AfterParse /\ status = "raised" => IsDiagnostic(thrown)

\* the same on the texts without an empty group, and every text with a closing
\* parenthesis that closes nothing fails
C28_WithoutEmptyGroup ==
    AfterParse =>
        /\ status \in {"returned", "raised"}
        /\ status = "raised" /\ ~EmptyGroup(source) => IsDiagnostic(thrown)
        /\ \A k \in 1..Len(errors) : IsDiagnostic(errors[k])
        /\ EmptyGroup(source) => status = "raised"

-----------------------------------------------------------------------------
(* The start and the raw text of the tokens, under SpecNumeric. *)

\* C29: every token lex() returns starts at the scan index lex() was called at, so
\* the text from its start to its end, the raw text of a Literal and the value of a
\* token-list entry, is the whole token as written, the prefix of a radix literal
\* included.  Checked under SpecNumeric.
C29_StartAtEntry ==
    LexReturned =>
        /\ last.tok.start = last.at.index
        /\ getTokenRaw(last.tok) = Join(Slice(last.at.index, scanner.index))
        /\ convertToken(last.tok).value = Join(Slice(last.at.index, scanner.index))

\* the same of the tokens that are not radix literals
C29_DecimalStartAtEntry ==
    (hist.num.radix = 10 \/ ~FirstLex) => C29_StartAtEntry

\* the raw text of a radix literal is its digits, without the prefix
C29_RadixRawIsDigits ==
    (LexReturned /\ FirstLex /\ hist.num.radix # 10) =>
        /\ last.tok.start = 2
        /\ getTokenRaw(last.tok) = Join(hist.num.digits)

-----------------------------------------------------------------------------
(* The token-list specification: parse(code, {tokens: true}) on texts      *)
(* written from a list of tokens: at most MaxTokenStatements statements,   *)
(* the same separator between every two tokens (nothing where the two      *)
(* tokens may touch, a blank, a line terminator, a line comment and a line *)
(* terminator), and nothing or a line comment at the end.  hist.words      *)
(* holds the tokens the text was written from, each with the name of its   *)
(* type.                                                                   *)

MaxTokenStatements == 2

Word(type, text) == [type |-> type, text |-> text]

TokenStatements == {
    << Word("Keyword", <<"l", "e", "t">>), Word("Identifier", <<"a">>),
       Word("Punctuator", <<"=">>), Word("Numeric", <<"1">>), Word("Punctuator", <<";">>) >>,
    << Word("Keyword", <<"l", "e", "t">>), Word("Identifier", <<"a">>),
       Word("Punctuator", <<";">>) >>,
    << Word("Keyword", <<"l", "e", "t">>), Word("Punctuator", <<";">>) >>,
    << Word("Keyword", <<"c", "o", "n", "s", "t">>), Word("Identifier", <<"b">>),
       Word("Punctuator", <<"=">>), Word("Numeric", <<"2">>), Word("Punctuator", <<";">>) >>,
    << Word("Identifier", <<"c">>), Word("Punctuator", <<"=">>),
       Word("Identifier", <<"d">>), Word("Punctuator", <<";">>) >>,
    << Word("Identifier", <<"e">>), Word("Punctuator", <<";">>) >> }

TokenSeparators == {<<>>, <<" ">>, <<"\n">>, <<"/", "/", "c", "\n">>, <<" ", "/", "/", "\n", " ">>}
TokenEnds == {<<>>, <<"\n">>, <<"/", "/", "c">>}

RECURSIVE Programs(_)
Programs(n) ==
    IF n = 0 THEN {<<>>}
    ELSE LET shorter == Programs(n - 1)
         IN  shorter \cup {p \o s : p \in shorter, s \in TokenStatements}

\* two tokens that would be one token if nothing stood between them
Touching(w1, w2) == IsIdentifierPart(Last(w1.text)) /\ IsIdentifierPart(Head(w2.text))

RECURSIVE Written(_, _)
Written(words, sep) ==
    IF Len(words) <= 1 THEN Flatten([i \in 1..Len(words) |-> words[i].text])
    ELSE words[1].text
         \o (IF sep = <<>> /\ Touching(words[1], words[2]) THEN <<" ">> ELSE sep)
         \o Written(Tail(words), sep)

InitTokens ==
    /\ \E words \in Programs(MaxTokenStatements), sep \in TokenSeparators,
          end \in TokenEnds :
           /\ source = Written(words, sep) \o end
           /\ hist = [path |-> <<>>, words |-> words, sep |-> sep, end |-> end]
    /\ config \in [tolerant : {FALSE}, comment : BOOLEAN, tokens : {TRUE}]
    /\ scanner = NewScanner(source)
    /\ errors = <<>>
    /\ parser = Null
    /\ body = <<>>
    /\ status = "running"
    /\ thrown = NoError
    /\ last = [op |-> "new"]

SpecTokens == InitTokens /\ [][ParseCall]_vars

\* the entries of the token list for the tokens the text was written from
WrittenTokens ==
    [i \in 1..Len(hist.words) |->
        [type |-> hist.words[i].type, value |-> Join(hist.words[i].text)]]

\* C30: with the tokens option on, after a successful parse the token list holds every
\* token of the source but the EOF exactly once, in source order: the speculative lex
\* after let adds no entry, and skipping a comment neither drops nor repeats a token.
C30_TokenList ==
    (AfterParse /\ status = "returned") => parser.tokens = WrittenTokens

\* let a = 1; and a second statement, with a comment at the end: the parse speculated
\* after let and the list holds the seven tokens
C30_Witness ==
    /\ AfterParse /\ status = "returned"
    /\ Len(hist.words) = 7 /\ hist.words[1].text = <<"l", "e", "t">>
    /\ hist.words[2].type = "Identifier"
    /\ hist.end = <<"/", "/", "c">> /\ config.comment
    /\ Len(parser.tokens) = 7
    /\ parser.tokens[2] = [type |-> "Identifier", value |-> "a"]

-----------------------------------------------------------------------------
(* Claim about the errors of the Scanner, under SpecMalformed.             *)

\* C5: an error the Scanner detects (no punctuator matches, radix prefix without digits,
\* exponent without digits, identifier start right after a number, malformed escape,
\* unterminated string) aborts the parse in both modes: it is raised, it is not appended
\* to the errors list and no Script is returned.
C5_ScannerErrorsFatal ==
    (AfterParse /\ Last(Path) \in Malformed) =>
        /\ status = "raised"
        /\ errors = <<>>
        /\ body = <<>>

-----------------------------------------------------------------------------
(* The binary-expression specification: parse on the text                  *)
(* 1 op 2 op 3 ... ;  for every sequence of at most MaxOperators operators *)
(* of the precedence table.  hist.ops is the sequence of the operators.    *)

\* the operators of the table: the entries of precedence 0 end an expression
TableOperators == {op \in DOMAIN operatorPrecedence : operatorPrecedence[op] > 0}

\* the operators of the table that Scanner.scanPunctuator returns as one token
ScannedOperators == TableOperators \ {"===", "!=="}

OperatorText(op) ==
    CASE op = "||" -> <<"|", "|">>
      [] op = "&&" -> <<"&", "&">>
      [] op = "==" -> <<"=", "=">>
      [] op = "!=" -> <<"!", "=">>
      [] op = "===" -> <<"=", "=", "=">>
      [] op = "!==" -> <<"!", "=", "=">>
      [] op = "<=" -> <<"<", "=">>
      [] op = ">=" -> <<">", "=">>
      [] op = "<<" -> <<"<", "<">>
      [] op = ">>" -> <<">", ">">>
      [] op = ">>>" -> <<">", ">", ">">>
      [] OTHER -> <<op>>

\* the text of operand i, a digit
OperandText(i) == <<DigitChars[i + 1]>>

RECURSIVE RestText(_, _)
RestText(ops, i) ==
    IF i > Len(ops) THEN <<";">>
    ELSE OperatorText(ops[i]) \o OperandText(i + 1) \o RestText(ops, i + 1)

BinaryText(ops) == OperandText(1) \o RestText(ops, 1)

\* one operator or more of each precedence of the table
Representatives == {"||", "&&", "|", "^", "&", "==", "===", "<", ">>", "+", "-", "*"}

\* every sequence of at most MaxTableOperators operators of the table, and every
\* sequence of at most MaxOperators of the representatives
OperatorSequences ==
    (Texts({<<op>> : op \in TableOperators}, MaxTableOperators)
     \cup Texts({<<op>> : op \in Representatives}, MaxOperators)) \ {<<>>}

InitBinary ==
    /\ hist \in [ops : OperatorSequences]
    /\ source = BinaryText(hist.ops)
    /\ config = [tolerant |-> FALSE, comment |-> FALSE, tokens |-> FALSE]
    /\ scanner = NewScanner(source)
    /\ errors = <<>>
    /\ parser = Null
    /\ body = <<>>
    /\ status = "running"
    /\ thrown = NoError
    /\ last = [op |-> "new"]

SpecBinary == InitBinary /\ [][Next]_vars

\* A reference precedence-climbing parser on the sequence itself: operand i is the
\* literal i, operator i stands between operand i and operand i + 1.  Climb parses
\* from operand i the longest expression whose operators have at least precedence
\* min: [node, next], next the index of the operator that follows it.
Operand(i) == NodeLiteral(NumberValue(Num(i)), DigitChars[i + 1])

RECURSIVE Climb(_, _, _), ClimbLoop(_, _, _)
Climb(ops, i, min) == ClimbLoop(ops, [node |-> Operand(i), next |-> i], min)

ClimbLoop(ops, lhs, min) ==
    IF lhs.next <= Len(ops) /\ operatorPrecedence[ops[lhs.next]] >= min
    THEN LET op == ops[lhs.next]
             rhs == Climb(ops, lhs.next + 1, operatorPrecedence[op] + 1)
         IN  ClimbLoop(ops, [node |-> NodeBinaryExpression(op, lhs.node, rhs.node),
                             next |-> rhs.next], min)
    ELSE lhs

\* the in-order traversal of a tree of binary expressions over literals
RECURSIVE InOrder(_)
InOrder(node) ==
    IF node.type = "Literal" THEN <<node.raw>>
    ELSE InOrder(node.left) \o <<node.operator>> \o InOrder(node.right)

\* the sequence operand (operator operand)*
RECURSIVE Interleaved(_, _)
Interleaved(ops, i) ==
    IF i > Len(ops) THEN <<DigitChars[i + 1]>>
    ELSE <<DigitChars[i + 1], ops[i]>> \o Interleaved(ops, i + 1)

ClimbsRight ==
    /\ status = "returned"
    /\ errors = <<>>
    /\ body = <<NodeExpressionStatement(Climb(hist.ops, 1, 1).node)>>
    /\ InOrder(body[1].expression) = Interleaved(hist.ops, 1)

\* C6, as stated: for every sequence operand (operator operand)* whose operators come
\* from the precedence table, parseBinaryExpression returns the tree of a reference
\* precedence-climbing parser; its in-order traversal is the input sequence.
C6_TableOperators == AfterParse => ClimbsRight

\* C6, amended: for every sequence operand (operator operand)* whose operators are those
\* of the precedence table that the Scanner returns as one token (all but === and !==),
\* parseBinaryExpression returns the tree of a reference precedence-climbing parser
\* and its in-order traversal is the input sequence; with === or !== the parse raises.
C6_ScannedOperators ==
    AfterParse =>
        IF \A i \in 1..Len(hist.ops) : hist.ops[i] \in ScannedOperators
        THEN ClimbsRight
        ELSE status = "raised" /\ body = <<>>

C6_Witness ==
    /\ AfterParse /\ hist.ops = <<"-", "-", "*">>
    /\ status = "returned"
    /\ body = <<NodeExpressionStatement(
                  NodeBinaryExpression("-",
                      NodeBinaryExpression("-", Operand(1), Operand(2)),
                      NodeBinaryExpression("*", Operand(3), Operand(4))))>>

====
